---- MODULE Spec2Model ----
(***************************************************************************)
(* A model of the completion post-processing and context-assembly code of  *)
(* the "Null" editor extension:                                            *)
(*   - CompletionFormatter (rule tables, formatCompletion,                 *)
(*     removeDuplicateKeywords, applyFormattingRules, shouldAddLineBreak), *)
(*   - ContextAwareness (sliding window, surrounding context, accepted     *)
(*     suggestions, getUserContext).                                       *)
(*                                                                         *)
(* Strings are sequences of characters; a character is a one-character     *)
(* TLA+ string ("a", " ", "\n").  A character outside printable ASCII is   *)
(* written by its code point ("U2020").  Regular expressions are syntax    *)
(* trees, matched by a backtracking matcher with the priorities of the     *)
(* ECMAScript RegExp semantics (leftmost start, greedy quantifiers,        *)
(* ordered alternation).                                                   *)
(***************************************************************************)
EXTENDS Integers, Sequences, FiniteSets, TLC

(***************************************************************************)
(* Characters and the string operations of the JavaScript String type.     *)
(***************************************************************************)
LowerChars ==
  {"a", "b", "c", "d", "e", "f", "g", "h", "i", "j", "k", "l", "m",
   "n", "o", "p", "q", "r", "s", "t", "u", "v", "w", "x", "y", "z"}

UpperChars ==
  {"A", "B", "C", "D", "E", "F", "G", "H", "I", "J", "K", "L", "M",
   "N", "O", "P", "Q", "R", "S", "T", "U", "V", "W", "X", "Y", "Z"}

DigitChars == {"0", "1", "2", "3", "4", "5", "6", "7", "8", "9"}

\* \w
WordChars == LowerChars \cup UpperChars \cup DigitChars \cup {"_"}

\* \s (and the characters String.prototype.trim removes)
SpaceChars == {" ", "\t", "\n", "\r", "\f"}

\* the characters "." does not match
LineTerminators == {"\n", "\r"}

Min(a, b) == IF a < b THEN a ELSE b

Max(a, b) == IF a > b THEN a ELSE b

\* s.slice(n) for n >= 0: the empty string when n is past the end
Slice(s, n) == SubSeq(s, n + 1, Len(s))

\* s.substring(0, n) for n >= 0: clipped to the length of s
Substring0(s, n) == SubSeq(s, 1, Min(n, Len(s)))

\* s.startsWith(w)
StartsWith(s, w) == Len(w) <= Len(s) /\ SubSeq(s, 1, Len(w)) = w

\* the least and the greatest element of a non-empty set of integers
Least(S) == CHOOSE m \in S : \A o \in S : m <= o

Greatest(S) == CHOOSE m \in S : \A o \in S : m >= o

\* the number of white-space characters s starts with
LeadingSpace(s) ==
  Least({m \in 0..Len(s) : m = Len(s) \/ s[m + 1] \notin SpaceChars})

\* the number of white-space characters s ends with
TrailingSpace(s) ==
  Least({m \in 0..Len(s) : m = Len(s) \/ s[Len(s) - m] \notin SpaceChars})

\* s.trimLeft()
TrimLeft(s) == SubSeq(s, LeadingSpace(s) + 1, Len(s))

TrimRight(s) == SubSeq(s, 1, Len(s) - TrailingSpace(s))

\* s.trim()
Trim(s) == TrimRight(TrimLeft(s))

\* ' '.repeat(n)
Spaces(n) == [i \in 1..n |-> " "]

(***************************************************************************)
(* Regular expressions.  A pattern is Re(tree, number of capture groups).  *)
(***************************************************************************)
In(S) == [t |-> "in", cs |-> S]

NotIn(S) == [t |-> "notin", cs |-> S]

Dot == [t |-> "notin", cs |-> LineTerminators]

Str(w) == [t |-> "str", w |-> w]

Cat(xs) == [t |-> "cat", xs |-> xs]

Alt(xs) == [t |-> "alt", xs |-> xs]

\* x{lo,hi}, greedy; hi = -1 is "no upper limit"
Rep(x, lo, hi) == [t |-> "rep", x |-> x, lo |-> lo, hi |-> hi]

Grp(n, x) == [t |-> "grp", n |-> n, x |-> x]

Bol == [t |-> "bol"]

Eol == [t |-> "eol"]

Wb == [t |-> "wb"]

Re(x, ng) == [x |-> x, ng |-> ng]

IsWordAt(s, i) == i >= 1 /\ i <= Len(s) /\ s[i] \in WordChars

NoMatch == [ok |-> FALSE]

\* whether character c is matched by the character class x
Matches(x, c) == IF x.t = "in" THEN c \in x.cs ELSE c \notin x.cs

\* the number of consecutive characters of s after position i that the
\* character class x matches, at most hi of them (hi = -1: no limit)
RunLength(x, s, i, hi) ==
  LET most == IF hi = -1 THEN Len(s) - i ELSE Min(hi, Len(s) - i)
      stops == {m \in 0..most : m = most \/ ~Matches(x, s[i + m + 1])}
  IN Least(stops)

RECURSIVE Run(_, _, _, _)
RECURSIVE RunAlt(_, _, _, _, _, _)
RECURSIVE GiveBack(_, _, _, _, _)
\* The backtracking matcher: k is the continuation (the nodes still to be
\* matched, in order), i the number of characters of s consumed so far, caps
\* the capture groups closed so far (<<>> = not set, else <<start, end>>).
\* The result is the first match in priority order, or NoMatch.
Run(k, s, i, caps) ==
  IF Len(k) = 0 THEN [ok |-> TRUE, e |-> i, caps |-> caps]
  ELSE
    LET re == Head(k)
        rest == Tail(k)
    IN CASE re.t = "in" ->
              IF i < Len(s) /\ s[i + 1] \in re.cs
              THEN Run(rest, s, i + 1, caps) ELSE NoMatch
         [] re.t = "notin" ->
              IF i < Len(s) /\ s[i + 1] \notin re.cs
              THEN Run(rest, s, i + 1, caps) ELSE NoMatch
         [] re.t = "str" ->
              IF i + Len(re.w) <= Len(s)
                 /\ SubSeq(s, i + 1, i + Len(re.w)) = re.w
              THEN Run(rest, s, i + Len(re.w), caps) ELSE NoMatch
         [] re.t = "bol" -> IF i = 0 THEN Run(rest, s, i, caps) ELSE NoMatch
         [] re.t = "eol" ->
              IF i = Len(s) THEN Run(rest, s, i, caps) ELSE NoMatch
         [] re.t = "wb" ->
              IF IsWordAt(s, i) # IsWordAt(s, i + 1)
              THEN Run(rest, s, i, caps) ELSE NoMatch
         [] re.t = "cat" -> Run(re.xs \o rest, s, i, caps)
         [] re.t = "alt" -> RunAlt(re.xs, 1, rest, s, i, caps)
         [] re.t = "rep" /\ re.x.t \in {"in", "notin"} ->
              \* a quantified character class: the longest run first, then
              \* one character less at a time
              LET n == RunLength(re.x, s, i, re.hi)
              IN IF n < re.lo THEN NoMatch
                 ELSE GiveBack(rest, s, i + n, i + re.lo, caps)
         [] re.t = "rep" ->
              LET again == [t |-> "loop", x |-> re.x,
                            lo |-> Max(re.lo - 1, 0),
                            hi |-> IF re.hi = -1 THEN -1 ELSE re.hi - 1,
                            at |-> i, chk |-> re.lo = 0]
                  more == IF re.hi = 0 THEN NoMatch
                          ELSE Run(<<re.x, again>> \o rest, s, i, caps)
              IN IF more.ok THEN more
                 ELSE IF re.lo = 0 THEN Run(rest, s, i, caps) ELSE NoMatch
         [] re.t = "loop" ->
              \* an iteration that consumed nothing is rejected
              IF re.chk /\ i = re.at THEN NoMatch
              ELSE Run(<<Rep(re.x, re.lo, re.hi)>> \o rest, s, i, caps)
         [] re.t = "grp" ->
              Run(<<re.x, [t |-> "close", n |-> re.n, at |-> i]>> \o rest,
                  s, i, caps)
         [] re.t = "close" ->
              Run(rest, s, i, [caps EXCEPT ![re.n] = <<re.at, i>>])

\* the continuation matched after the longest prefix of a run of characters
\* that lets it match: the run ends at j at most and at least at least
GiveBack(rest, s, j, least, caps) ==
  LET longest == Run(rest, s, j, caps)
      ends == {e \in least..(j - 1) : Run(rest, s, e, caps).ok}
  IN IF longest.ok THEN longest
     ELSE IF ends = {} THEN NoMatch
     ELSE Run(rest, s, Greatest(ends), caps)

RunAlt(xs, j, rest, s, i, caps) ==
  IF j > Len(xs) THEN NoMatch
  ELSE LET r == Run(<<xs[j]>> \o rest, s, i, caps)
       IN IF r.ok THEN r ELSE RunAlt(xs, j + 1, rest, s, i, caps)

\* the match record of a run r of the matcher that started after the first
\* from characters
Found(r, from) ==
  IF r.ok THEN [ok |-> TRUE, b |-> from, e |-> r.e, caps |-> r.caps]
  ELSE NoMatch

\* the match of pattern re that starts after the first from characters of s
ExecFrom(re, s, from) ==
  Found(Run(<<re.x>>, s, from, [n \in 1..re.ng |-> <<>>]), from)

\* a pattern that starts with ^ matches at the start of the string or nowhere
Anchored(re) ==
  \/ re.x.t = "bol"
  \/ re.x.t = "cat" /\ re.x.xs[1].t = "bol"

RECURSIVE ExecAt(_, _, _)
\* the match m found at from, or else the first one found further right
OrLater(m, re, s, from) ==
  IF m.ok \/ Anchored(re) \/ from >= Len(s) THEN m
  ELSE ExecAt(re, s, from + 1)

\* the leftmost match of re in s that starts at from or later
ExecAt(re, s, from) == OrLater(ExecFrom(re, s, from), re, s, from)

\* s.match(re) / re.exec(s) without the g flag: the leftmost match
Exec(re, s) == ExecAt(re, s, 0)

\* re.test(s)
Test(re, s) == Exec(re, s).ok

\* the value of an unset capture group (undefined): no string equals it
Undefined == <<"undefined">>

\* m[n] of a match m of s (n = 0: the whole match)
MatchGroup(s, m, n) ==
  IF n = 0 THEN SubSeq(s, m.b + 1, m.e)
  ELSE IF m.caps[n] = <<>> THEN Undefined
  ELSE SubSeq(s, m.caps[n][1] + 1, m.caps[n][2])


(***************************************************************************)
(* State.                                                                  *)
(*                                                                         *)
(* The formatter is called with a document, a position and the raw         *)
(* completion text; it reads the editor's indentation settings.  The       *)
(* context manager (one ContextAwareness object, made by activate) reads   *)
(* the window's active text editor.  The inline completion provider is     *)
(* called with the edited document, the cursor's position and a            *)
(* cancellation token, and waits for the model's completion.               *)
(***************************************************************************)
VARIABLES
  document,        \* the request's TextDocument: [languageId, lines]
  position,        \* the request's Position: [line, character], 0-based
  completionText,  \* the raw completion handed to formatCompletion
  insertSpaces,    \* editor.insertSpaces
  tabSize,         \* editor.tabSize
  formatted,       \* what formatCompletion returned: [text, range]
  resolved,        \* the results of successive removeDuplicateKeywords calls
  strips,          \* the stripping steps the formatCompletion call applied
  fpc,             \* where the formatter run is
  activeTextEditor,     \* vscode.window.activeTextEditor, or NoEditor
  slidingWindow,        \* ContextAwareness.slidingWindow
  acceptedSuggestions,  \* ContextAwareness.acceptedSuggestions
  userContext,     \* what the last getUserContext call returned
  tracked,         \* the arguments of the trackAcceptedSuggestion calls so far
  acceptedIn,      \* the documents that were active at one of these calls
  readEditor,      \* the active editor the last getUserContext call read
  thrown,          \* whether a call ended by an exception
  request,         \* where provideInlineCompletionItems is, or how it ended
  isCancellationRequested,  \* token.isCancellationRequested
  items,           \* the items provideInlineCompletionItems returned
  requestWrote,    \* the fields of the manager the request has changed
  userInput,       \* the text before the cursor the request put in its prompt
  fetched          \* how the request's fetchCompletion call ended

fvars ==
  <<document, position, completionText, insertSpaces, tabSize, formatted,
    resolved, strips, fpc>>

cvars ==
  <<activeTextEditor, slidingWindow, acceptedSuggestions, userContext,
    tracked, acceptedIn, readEditor, thrown>>

pvars ==
  <<request, isCancellationRequested, items, requestWrote, userInput,
    fetched>>

vars == <<fvars, cvars, pvars>>
lineBreakRules ==
  << \* /^(import|from|using|require|include|#include)\s+.*/
     [pattern |-> Re(Cat(<<Bol, Grp(1, Alt(<<Str(<<"i", "m", "p", "o", "r", "t">>), Str(<<"f", "r", "o", "m">>), Str(<<"u", "s", "i", "n", "g">>), Str(<<"r", "e", "q", "u", "i", "r", "e">>), Str(<<"i", "n", "c", "l", "u", "d", "e">>), Str(<<"#", "i", "n", "c", "l", "u", "d", "e">>)>>)), Rep(In(SpaceChars), 1, -1), Rep(Dot, 0, -1)>>), 1),
      shouldBreak |-> TRUE, indentNextLine |-> FALSE],
     \* /^(package|namespace)\s+.*/
     [pattern |-> Re(Cat(<<Bol, Grp(1, Alt(<<Str(<<"p", "a", "c", "k", "a", "g", "e">>), Str(<<"n", "a", "m", "e", "s", "p", "a", "c", "e">>)>>)), Rep(In(SpaceChars), 1, -1), Rep(Dot, 0, -1)>>), 1),
      shouldBreak |-> TRUE, indentNextLine |-> FALSE],
     \* /^(async\s+)?(function|func|def|fn|fun|method|sub|proc|procedure|private|public|protected|internal|override|virtual|static|final)*\s*[\w<>]+\s*\(.*\)\s*({|\:|U00E2U2020U2019|->)?\s*$/
     [pattern |-> Re(Cat(<<Bol, Rep(Grp(1, Cat(<<Str(<<"a", "s", "y", "n", "c">>), Rep(In(SpaceChars), 1, -1)>>)), 0, 1), Rep(Grp(2, Alt(<<Str(<<"f", "u", "n", "c", "t", "i", "o", "n">>), Str(<<"f", "u", "n", "c">>), Str(<<"d", "e", "f">>), Str(<<"f", "n">>), Str(<<"f", "u", "n">>), Str(<<"m", "e", "t", "h", "o", "d">>), Str(<<"s", "u", "b">>), Str(<<"p", "r", "o", "c">>), Str(<<"p", "r", "o", "c", "e", "d", "u", "r", "e">>), Str(<<"p", "r", "i", "v", "a", "t", "e">>), Str(<<"p", "u", "b", "l", "i", "c">>), Str(<<"p", "r", "o", "t", "e", "c", "t", "e", "d">>), Str(<<"i", "n", "t", "e", "r", "n", "a", "l">>), Str(<<"o", "v", "e", "r", "r", "i", "d", "e">>), Str(<<"v", "i", "r", "t", "u", "a", "l">>), Str(<<"s", "t", "a", "t", "i", "c">>), Str(<<"f", "i", "n", "a", "l">>)>>)), 0, -1), Rep(In(SpaceChars), 0, -1), Rep(In(WordChars \cup {"<", ">"}), 1, -1), Rep(In(SpaceChars), 0, -1), Str(<<"(">>), Rep(Dot, 0, -1), Str(<<")">>), Rep(In(SpaceChars), 0, -1), Rep(Grp(3, Alt(<<Str(<<"{">>), Str(<<":">>), Str(<<"U00E2", "U2020", "U2019">>), Str(<<"-", ">">>)>>)), 0, 1), Rep(In(SpaceChars), 0, -1), Eol>>), 3),
      shouldBreak |-> TRUE, indentNextLine |-> TRUE],
     \* /^.*=>\s*({)?\s*$/
     [pattern |-> Re(Cat(<<Bol, Rep(Dot, 0, -1), Str(<<"=", ">">>), Rep(In(SpaceChars), 0, -1), Rep(Grp(1, Str(<<"{">>)), 0, 1), Rep(In(SpaceChars), 0, -1), Eol>>), 1),
      shouldBreak |-> TRUE, indentNextLine |-> TRUE],
     \* /^(class|interface|struct|enum|trait|type|record|data class)\s+.*({|\:)?\s*$/
     [pattern |-> Re(Cat(<<Bol, Grp(1, Alt(<<Str(<<"c", "l", "a", "s", "s">>), Str(<<"i", "n", "t", "e", "r", "f", "a", "c", "e">>), Str(<<"s", "t", "r", "u", "c", "t">>), Str(<<"e", "n", "u", "m">>), Str(<<"t", "r", "a", "i", "t">>), Str(<<"t", "y", "p", "e">>), Str(<<"r", "e", "c", "o", "r", "d">>), Str(<<"d", "a", "t", "a", " ", "c", "l", "a", "s", "s">>)>>)), Rep(In(SpaceChars), 1, -1), Rep(Dot, 0, -1), Rep(Grp(2, In({"{", ":"})), 0, 1), Rep(In(SpaceChars), 0, -1), Eol>>), 2),
      shouldBreak |-> TRUE, indentNextLine |-> TRUE],
     \* /^(if|else|elif|else if|for|foreach|while|do|switch|case|catch|finally|try|unless|when|match|select)\s*(\(.*\))?\s*({|\:)?\s*$/
     [pattern |-> Re(Cat(<<Bol, Grp(1, Alt(<<Str(<<"i", "f">>), Str(<<"e", "l", "s", "e">>), Str(<<"e", "l", "i", "f">>), Str(<<"e", "l", "s", "e", " ", "i", "f">>), Str(<<"f", "o", "r">>), Str(<<"f", "o", "r", "e", "a", "c", "h">>), Str(<<"w", "h", "i", "l", "e">>), Str(<<"d", "o">>), Str(<<"s", "w", "i", "t", "c", "h">>), Str(<<"c", "a", "s", "e">>), Str(<<"c", "a", "t", "c", "h">>), Str(<<"f", "i", "n", "a", "l", "l", "y">>), Str(<<"t", "r", "y">>), Str(<<"u", "n", "l", "e", "s", "s">>), Str(<<"w", "h", "e", "n">>), Str(<<"m", "a", "t", "c", "h">>), Str(<<"s", "e", "l", "e", "c", "t">>)>>)), Rep(In(SpaceChars), 0, -1), Rep(Grp(2, Cat(<<Str(<<"(">>), Rep(Dot, 0, -1), Str(<<")">>)>>)), 0, 1), Rep(In(SpaceChars), 0, -1), Rep(Grp(3, In({"{", ":"})), 0, 1), Rep(In(SpaceChars), 0, -1), Eol>>), 3),
      shouldBreak |-> TRUE, indentNextLine |-> TRUE],
     \* /^.*{[\s\r\n]*$/
     [pattern |-> Re(Cat(<<Bol, Rep(Dot, 0, -1), Str(<<"{">>), Rep(In(SpaceChars \cup {"\r", "\n"}), 0, -1), Eol>>), 0),
      shouldBreak |-> TRUE, indentNextLine |-> TRUE],
     \* /^[\s\t]*@[\w\.]+([\s\t]*\(.*\))?\s*$/
     [pattern |-> Re(Cat(<<Bol, Rep(In(SpaceChars \cup {"\t"}), 0, -1), Str(<<"@">>), Rep(In(WordChars \cup {"."}), 1, -1), Rep(Grp(1, Cat(<<Rep(In(SpaceChars \cup {"\t"}), 0, -1), Str(<<"(">>), Rep(Dot, 0, -1), Str(<<")">>)>>)), 0, 1), Rep(In(SpaceChars), 0, -1), Eol>>), 1),
      shouldBreak |-> TRUE, indentNextLine |-> FALSE],
     \* /.*[+\-*/=<>?:|&%]\s*$/
     [pattern |-> Re(Cat(<<Rep(Dot, 0, -1), In({"+", "-", "*", "/", "=", "<", ">", "?", ":", "|", "&", "%"}), Rep(In(SpaceChars), 0, -1), Eol>>), 0),
      shouldBreak |-> TRUE, indentNextLine |-> FALSE],
     \* /^.*[\[\{]\s*$/
     [pattern |-> Re(Cat(<<Bol, Rep(Dot, 0, -1), In({"[", "{"}), Rep(In(SpaceChars), 0, -1), Eol>>), 0),
      shouldBreak |-> TRUE, indentNextLine |-> TRUE],
     \* /^.*(SELECT|INSERT|UPDATE|DELETE|CREATE|ALTER|DROP|MERGE)\s*.*$/i
     [pattern |-> Re(Cat(<<Bol, Rep(Dot, 0, -1), Grp(1, Alt(<<Cat(<<In({"S", "s"}), In({"E", "e"}), In({"L", "l"}), In({"E", "e"}), In({"C", "c"}), In({"T", "t"})>>), Cat(<<In({"I", "i"}), In({"N", "n"}), In({"S", "s"}), In({"E", "e"}), In({"R", "r"}), In({"T", "t"})>>), Cat(<<In({"U", "u"}), In({"P", "p"}), In({"D", "d"}), In({"A", "a"}), In({"T", "t"}), In({"E", "e"})>>), Cat(<<In({"D", "d"}), In({"E", "e"}), In({"L", "l"}), In({"E", "e"}), In({"T", "t"}), In({"E", "e"})>>), Cat(<<In({"C", "c"}), In({"R", "r"}), In({"E", "e"}), In({"A", "a"}), In({"T", "t"}), In({"E", "e"})>>), Cat(<<In({"A", "a"}), In({"L", "l"}), In({"T", "t"}), In({"E", "e"}), In({"R", "r"})>>), Cat(<<In({"D", "d"}), In({"R", "r"}), In({"O", "o"}), In({"P", "p"})>>), Cat(<<In({"M", "m"}), In({"E", "e"}), In({"R", "r"}), In({"G", "g"}), In({"E", "e"})>>)>>)), Rep(In(SpaceChars), 0, -1), Rep(Dot, 0, -1), Eol>>), 1),
      shouldBreak |-> TRUE, indentNextLine |-> TRUE],
     \* /\.(then|catch|finally|map|filter|reduce)\(\s*$/
     [pattern |-> Re(Cat(<<Str(<<".">>), Grp(1, Alt(<<Str(<<"t", "h", "e", "n">>), Str(<<"c", "a", "t", "c", "h">>), Str(<<"f", "i", "n", "a", "l", "l", "y">>), Str(<<"m", "a", "p">>), Str(<<"f", "i", "l", "t", "e", "r">>), Str(<<"r", "e", "d", "u", "c", "e">>)>>)), Str(<<"(">>), Rep(In(SpaceChars), 0, -1), Eol>>), 1),
      shouldBreak |-> TRUE, indentNextLine |-> TRUE],
     \* /^.*\.\w+\(\)\s*$/
     [pattern |-> Re(Cat(<<Bol, Rep(Dot, 0, -1), Str(<<".">>), Rep(In(WordChars), 1, -1), Str(<<"(", ")">>), Rep(In(SpaceChars), 0, -1), Eol>>), 0),
      shouldBreak |-> TRUE, indentNextLine |-> FALSE],
     \* /^.*<[^>]+>\s*$/
     [pattern |-> Re(Cat(<<Bol, Rep(Dot, 0, -1), Str(<<"<">>), Rep(NotIn({">"}), 1, -1), Str(<<">">>), Rep(In(SpaceChars), 0, -1), Eol>>), 0),
      shouldBreak |-> TRUE, indentNextLine |-> TRUE],
     \* /^(private|public|protected|internal|static|final|const|let|var|my|our)\s+[\w<>]+\s+\w+\s*=?\s*$/
     [pattern |-> Re(Cat(<<Bol, Grp(1, Alt(<<Str(<<"p", "r", "i", "v", "a", "t", "e">>), Str(<<"p", "u", "b", "l", "i", "c">>), Str(<<"p", "r", "o", "t", "e", "c", "t", "e", "d">>), Str(<<"i", "n", "t", "e", "r", "n", "a", "l">>), Str(<<"s", "t", "a", "t", "i", "c">>), Str(<<"f", "i", "n", "a", "l">>), Str(<<"c", "o", "n", "s", "t">>), Str(<<"l", "e", "t">>), Str(<<"v", "a", "r">>), Str(<<"m", "y">>), Str(<<"o", "u", "r">>)>>)), Rep(In(SpaceChars), 1, -1), Rep(In(WordChars \cup {"<", ">"}), 1, -1), Rep(In(SpaceChars), 1, -1), Rep(In(WordChars), 1, -1), Rep(In(SpaceChars), 0, -1), Rep(Str(<<"=">>), 0, 1), Rep(In(SpaceChars), 0, -1), Eol>>), 1),
      shouldBreak |-> TRUE, indentNextLine |-> FALSE],
     \* /^[\s\t]*(\/\*\*|###|\'\'\').*$/
     [pattern |-> Re(Cat(<<Bol, Rep(In(SpaceChars \cup {"\t"}), 0, -1), Grp(1, Alt(<<Str(<<"/", "*", "*">>), Str(<<"#", "#", "#">>), Str(<<"'", "'", "'">>)>>)), Rep(Dot, 0, -1), Eol>>), 1),
      shouldBreak |-> TRUE, indentNextLine |-> TRUE],
     \* /^.*U0060\s*$/
     [pattern |-> Re(Cat(<<Bol, Rep(Dot, 0, -1), Str(<<"U0060">>), Rep(In(SpaceChars), 0, -1), Eol>>), 0),
      shouldBreak |-> TRUE, indentNextLine |-> TRUE],
     \* /^.*\[\s*for\s+.*$/
     [pattern |-> Re(Cat(<<Bol, Rep(Dot, 0, -1), Str(<<"[">>), Rep(In(SpaceChars), 0, -1), Str(<<"f", "o", "r">>), Rep(In(SpaceChars), 1, -1), Rep(Dot, 0, -1), Eol>>), 0),
      shouldBreak |-> TRUE, indentNextLine |-> TRUE],
     \* /^.*(async|await)\s+.*$/
     [pattern |-> Re(Cat(<<Bol, Rep(Dot, 0, -1), Grp(1, Cat(<<Str(<<"a">>), Alt(<<Str(<<"s", "y", "n", "c">>), Str(<<"w", "a", "i", "t">>)>>)>>)), Rep(In(SpaceChars), 1, -1), Rep(Dot, 0, -1), Eol>>), 1),
      shouldBreak |-> TRUE, indentNextLine |-> FALSE],
     \* /^(try|catch|finally|rescue|ensure|except)\s*.*$/
     [pattern |-> Re(Cat(<<Bol, Grp(1, Alt(<<Str(<<"t", "r", "y">>), Str(<<"c", "a", "t", "c", "h">>), Str(<<"f", "i", "n", "a", "l", "l", "y">>), Str(<<"r", "e", "s", "c", "u", "e">>), Str(<<"e", "n", "s", "u", "r", "e">>), Str(<<"e", "x", "c", "e", "p", "t">>)>>)), Rep(In(SpaceChars), 0, -1), Rep(Dot, 0, -1), Eol>>), 1),
      shouldBreak |-> TRUE, indentNextLine |-> TRUE],
     \* /^(if|elif|else|case|while|until|for)\s+.*;\s*do\s*$/
     [pattern |-> Re(Cat(<<Bol, Grp(1, Alt(<<Str(<<"i", "f">>), Str(<<"e", "l", "i", "f">>), Str(<<"e", "l", "s", "e">>), Str(<<"c", "a", "s", "e">>), Str(<<"w", "h", "i", "l", "e">>), Str(<<"u", "n", "t", "i", "l">>), Str(<<"f", "o", "r">>)>>)), Rep(In(SpaceChars), 1, -1), Rep(Dot, 0, -1), Str(<<";">>), Rep(In(SpaceChars), 0, -1), Str(<<"d", "o">>), Rep(In(SpaceChars), 0, -1), Eol>>), 1),
      shouldBreak |-> TRUE, indentNextLine |-> TRUE],
     \* /^with\s+.*:\s*$/
     [pattern |-> Re(Cat(<<Bol, Str(<<"w", "i", "t", "h">>), Rep(In(SpaceChars), 1, -1), Rep(Dot, 0, -1), Str(<<":">>), Rep(In(SpaceChars), 0, -1), Eol>>), 0),
      shouldBreak |-> TRUE, indentNextLine |-> TRUE],
     \* /^.*=>\s*$/
     [pattern |-> Re(Cat(<<Bol, Rep(Dot, 0, -1), Str(<<"=", ">">>), Rep(In(SpaceChars), 0, -1), Eol>>), 0),
      shouldBreak |-> TRUE, indentNextLine |-> TRUE],
     \* /^(defer|go)\s+.*$/
     [pattern |-> Re(Cat(<<Bol, Grp(1, Alt(<<Str(<<"d", "e", "f", "e", "r">>), Str(<<"g", "o">>)>>)), Rep(In(SpaceChars), 1, -1), Rep(Dot, 0, -1), Eol>>), 1),
      shouldBreak |-> TRUE, indentNextLine |-> FALSE],
     \* /^.[^{]*{\s*$/
     [pattern |-> Re(Cat(<<Bol, Dot, Rep(NotIn({"{"}), 0, -1), Str(<<"{">>), Rep(In(SpaceChars), 0, -1), Eol>>), 0),
      shouldBreak |-> TRUE, indentNextLine |-> TRUE],
     \* /^(var|let|const|dim|private|public|protected)\s+\w+\s*=\s*$/
     [pattern |-> Re(Cat(<<Bol, Grp(1, Alt(<<Str(<<"v", "a", "r">>), Str(<<"l", "e", "t">>), Str(<<"c", "o", "n", "s", "t">>), Str(<<"d", "i", "m">>), Str(<<"p", "r", "i", "v", "a", "t", "e">>), Str(<<"p", "u", "b", "l", "i", "c">>), Str(<<"p", "r", "o", "t", "e", "c", "t", "e", "d">>)>>)), Rep(In(SpaceChars), 1, -1), Rep(In(WordChars), 1, -1), Rep(In(SpaceChars), 0, -1), Str(<<"=">>), Rep(In(SpaceChars), 0, -1), Eol>>), 1),
      shouldBreak |-> TRUE, indentNextLine |-> TRUE] >>

languageSpecificRules ==
  << [languageId |-> "python",
   rules |-> <<
     \* /^def\s+\w+\s*\(.*\)\s*->\s*.*:\s*$/
     [pattern |-> Re(Cat(<<Bol, Str(<<"d", "e", "f">>), Rep(In(SpaceChars), 1, -1), Rep(In(WordChars), 1, -1), Rep(In(SpaceChars), 0, -1), Str(<<"(">>), Rep(Dot, 0, -1), Str(<<")">>), Rep(In(SpaceChars), 0, -1), Str(<<"-", ">">>), Rep(In(SpaceChars), 0, -1), Rep(Dot, 0, -1), Str(<<":">>), Rep(In(SpaceChars), 0, -1), Eol>>), 0),
      shouldBreak |-> TRUE, indentNextLine |-> TRUE] >>],
  [languageId |-> "rust",
   rules |-> <<
     \* /^impl(\s+\w+)?\s+for\s+\w+\s*.*\s*$/
     [pattern |-> Re(Cat(<<Bol, Str(<<"i", "m", "p", "l">>), Rep(Grp(1, Cat(<<Rep(In(SpaceChars), 1, -1), Rep(In(WordChars), 1, -1)>>)), 0, 1), Rep(In(SpaceChars), 1, -1), Str(<<"f", "o", "r">>), Rep(In(SpaceChars), 1, -1), Rep(In(WordChars), 1, -1), Rep(In(SpaceChars), 0, -1), Rep(Dot, 0, -1), Rep(In(SpaceChars), 0, -1), Eol>>), 1),
      shouldBreak |-> TRUE, indentNextLine |-> TRUE] >>] >>

keywords ==
  << <<"d", "e", "f">>, <<"c", "l", "a", "s", "s">>,
     <<"f", "u", "n", "c", "t", "i", "o", "n">>, <<"f", "u", "n">>,
     <<"f", "n">>, <<"f", "u", "n", "c">>,
     <<"m", "e", "t", "h", "o", "d">>, <<"p", "r", "o", "c">>,
     <<"s", "u", "b">>, <<"i", "m", "p", "o", "r", "t">>,
     <<"f", "r", "o", "m">>, <<"r", "e", "q", "u", "i", "r", "e">>,
     <<"i", "n", "c", "l", "u", "d", "e">>, <<"u", "s", "e">>,
     <<"u", "s", "e", "s">>, <<"u", "s", "i", "n", "g">>,
     <<"e", "x", "t", "e", "r", "n">>, <<"p", "u", "b", "l", "i", "c">>,
     <<"p", "r", "i", "v", "a", "t", "e">>, <<"p", "r", "o", "t", "e", "c", "t", "e", "d">>,
     <<"i", "n", "t", "e", "r", "n", "a", "l">>, <<"f", "r", "i", "e", "n", "d">>,
     <<"f", "i", "n", "a", "l">>, <<"s", "e", "a", "l", "e", "d">>,
     <<"s", "t", "a", "t", "i", "c">>, <<"a", "s", "y", "n", "c">>,
     <<"a", "w", "a", "i", "t">>, <<"l", "e", "t">>,
     <<"c", "o", "n", "s", "t">>, <<"v", "a", "r">>,
     <<"v", "a", "l">>, <<"d", "i", "m">>,
     <<"a", "u", "t", "o">>, <<"i", "f">>,
     <<"e", "l", "s", "e">>, <<"e", "l", "i", "f">>,
     <<"e", "l", "s", "e", "i", "f">>, <<"u", "n", "l", "e", "s", "s">>,
     <<"s", "w", "i", "t", "c", "h">>, <<"c", "a", "s", "e">>,
     <<"m", "a", "t", "c", "h">>, <<"w", "h", "e", "n">>,
     <<"w", "h", "i", "l", "e">>, <<"f", "o", "r">>,
     <<"f", "o", "r", "e", "a", "c", "h">>, <<"d", "o">>,
     <<"u", "n", "t", "i", "l">>, <<"l", "o", "o", "p">>,
     <<"r", "e", "p", "e", "a", "t">>, <<"c", "o", "n", "t", "i", "n", "u", "e">>,
     <<"t", "r", "y">>, <<"c", "a", "t", "c", "h">>,
     <<"f", "i", "n", "a", "l", "l", "y">>, <<"r", "e", "s", "c", "u", "e">>,
     <<"e", "n", "s", "u", "r", "e">>, <<"e", "x", "c", "e", "p", "t">>,
     <<"r", "a", "i", "s", "e">>, <<"t", "h", "r", "o", "w">>,
     <<"r", "e", "t", "u", "r", "n">>, <<"y", "i", "e", "l", "d">>,
     <<"b", "r", "e", "a", "k">>, <<"n", "e", "x", "t">>,
     <<"g", "o", "t", "o">>, <<"p", "a", "c", "k", "a", "g", "e">>,
     <<"n", "a", "m", "e", "s", "p", "a", "c", "e">>, <<"i", "n", "t", "e", "r", "f", "a", "c", "e">>,
     <<"t", "r", "a", "i", "t">>, <<"s", "t", "r", "u", "c", "t">>,
     <<"e", "n", "u", "m">>, <<"r", "e", "c", "o", "r", "d">>,
     <<"t", "y", "p", "e">>, <<"t", "y", "p", "e", "d", "e", "f">>,
     <<"i", "m", "p", "l", "e", "m", "e", "n", "t", "s">>, <<"e", "x", "t", "e", "n", "d", "s">>,
     <<"o", "v", "e", "r", "r", "i", "d", "e">>, <<"v", "i", "r", "t", "u", "a", "l">>,
     <<"a", "b", "s", "t", "r", "a", "c", "t">>, <<"s", "u", "p", "e", "r">>,
     <<"t", "h", "i", "s">>, <<"s", "e", "l", "f">>,
     <<"b", "a", "s", "e">>, <<"n", "e", "w">>,
     <<"d", "e", "l", "e", "t", "e">>, <<"i", "n", "s", "t", "a", "n", "c", "e", "o", "f">>,
     <<"s", "i", "z", "e", "o", "f">>, <<"r", "e", "a", "d", "o", "n", "l", "y">>,
     <<"v", "o", "l", "a", "t", "i", "l", "e">>, <<"t", "r", "a", "n", "s", "i", "e", "n", "t">>,
     <<"s", "y", "n", "c", "h", "r", "o", "n", "i", "z", "e", "d">>, <<"m", "u", "t", "a", "b", "l", "e">>,
     <<"c", "o", "n", "s", "t">>, <<"f", "i", "n", "a", "l">>,
     <<"s", "t", "a", "t", "i", "c">>, <<"a", "b", "s", "t", "r", "a", "c", "t">>,
     <<"e", "x", "p", "o", "r", "t">>, <<"d", "e", "f", "a", "u", "l", "t">>,
     <<"v", "o", "i", "d">>, <<"n", "u", "l", "l">>,
     <<"n", "i", "l">>, <<"u", "n", "d", "e", "f", "i", "n", "e", "d">>,
     <<"N", "o", "n", "e">>, <<"t", "r", "u", "e">>,
     <<"f", "a", "l", "s", "e">>, <<"i", "n", "t">>,
     <<"f", "l", "o", "a", "t">>, <<"d", "o", "u", "b", "l", "e">>,
     <<"s", "t", "r", "i", "n", "g">>, <<"c", "h", "a", "r">>,
     <<"b", "o", "o", "l">>, <<"b", "o", "o", "l", "e", "a", "n">>,
     <<"a", "r", "r", "a", "y">>, <<"l", "i", "s", "t">>,
     <<"s", "e", "t">>, <<"m", "a", "p">>,
     <<"d", "i", "c", "t">>, <<"t", "u", "p", "l", "e">>,
     <<"v", "e", "c", "t", "o", "r">>, <<"m", "o", "d", "u", "l", "e">>,
     <<"p", "a", "c", "k", "a", "g", "e">>, <<"l", "i", "b", "r", "a", "r", "y">>,
     <<"c", "r", "a", "t", "e">>, <<"g", "e", "m">>,
     <<"p", "o", "d">>, <<"e", "x", "p", "o", "r", "t">>,
     <<"e", "x", "t", "e", "r", "n">>, <<"f", "r", "o", "m">>,
     <<"a", "s">>, <<"i", "n", "t", "o">>,
     <<"i", "m", "p", "l">>, <<"l", "a", "m", "b", "d", "a">>,
     <<"w", "h", "e", "r", "e">>, <<"s", "e", "l", "e", "c", "t">>,
     <<"g", "r", "o", "u", "p">>, <<"b", "y">>,
     <<"h", "a", "v", "i", "n", "g">>, <<"m", "a", "p">>,
     <<"f", "i", "l", "t", "e", "r">>, <<"r", "e", "d", "u", "c", "e">>,
     <<"f", "o", "l", "d">>, <<"p", "i", "p", "e">>,
     <<"c", "o", "m", "p", "o", "s", "e">>, <<"a", "s", "y", "n", "c">>,
     <<"a", "w", "a", "i", "t">>, <<"p", "r", "o", "m", "i", "s", "e">>,
     <<"f", "u", "t", "u", "r", "e">>, <<"t", "a", "s", "k">>,
     <<"g", "o">>, <<"s", "e", "l", "e", "c", "t">>,
     <<"i", "n", "s", "e", "r", "t">>, <<"u", "p", "d", "a", "t", "e">>,
     <<"d", "e", "l", "e", "t", "e">>, <<"c", "r", "e", "a", "t", "e">>,
     <<"a", "l", "t", "e", "r">>, <<"d", "r", "o", "p">>,
     <<"t", "a", "b", "l", "e">>, <<"v", "i", "e", "w">>,
     <<"i", "n", "d", "e", "x">>, <<"t", "r", "i", "g", "g", "e", "r">>,
     <<"p", "r", "o", "c", "e", "d", "u", "r", "e">>, <<"p", "r", "o", "p", "s">>,
     <<"s", "t", "a", "t", "e">>, <<"c", "o", "n", "t", "e", "x", "t">>,
     <<"r", "e", "f">>, <<"k", "e", "y">>,
     <<"c", "h", "i", "l", "d", "r", "e", "n">>, <<"c", "o", "m", "p", "o", "n", "e", "n", "t">>,
     <<"u", "s", "e", "S", "t", "a", "t", "e">>, <<"u", "s", "e", "E", "f", "f", "e", "c", "t">>,
     <<"u", "s", "e", "C", "o", "n", "t", "e", "x", "t">>, <<"u", "s", "e", "R", "e", "f">>,
     <<"u", "s", "e", "C", "a", "l", "l", "b", "a", "c", "k">>, <<"u", "s", "e", "M", "e", "m", "o">>,
     <<"u", "s", "e", "R", "e", "d", "u", "c", "e", "r">>, <<"u", "s", "e", "L", "a", "y", "o", "u", "t", "E", "f", "f", "e", "c", "t">>,
     <<"m", "e", "m", "o">>, <<"f", "o", "r", "w", "a", "r", "d", "R", "e", "f">>,
     <<"F", "r", "a", "g", "m", "e", "n", "t">>, <<"S", "u", "s", "p", "e", "n", "s", "e">>,
     <<"l", "a", "z", "y">>, <<"c", "o", "m", "p", "o", "n", "e", "n", "t", "D", "i", "d", "M", "o", "u", "n", "t">>,
     <<"c", "o", "m", "p", "o", "n", "e", "n", "t", "D", "i", "d", "U", "p", "d", "a", "t", "e">>, <<"c", "o", "m", "p", "o", "n", "e", "n", "t", "W", "i", "l", "l", "U", "n", "m", "o", "u", "n", "t">>,
     <<"r", "e", "n", "d", "e", "r">>, <<"s", "h", "o", "u", "l", "d", "C", "o", "m", "p", "o", "n", "e", "n", "t", "U", "p", "d", "a", "t", "e">>,
     <<"g", "e", "t", "D", "e", "r", "i", "v", "e", "d", "S", "t", "a", "t", "e", "F", "r", "o", "m", "P", "r", "o", "p", "s">>, <<"g", "e", "t", "S", "n", "a", "p", "s", "h", "o", "t", "B", "e", "f", "o", "r", "e", "U", "p", "d", "a", "t", "e">>,
     <<"d", "i", "s", "p", "l", "a", "y", "N", "a", "m", "e">>, <<"d", "e", "f", "a", "u", "l", "t", "P", "r", "o", "p", "s">>,
     <<"p", "r", "o", "p", "T", "y", "p", "e", "s">>, <<"c", "o", "n", "t", "e", "x", "t", "T", "y", "p", "e">>,
     <<"C", "o", "n", "s", "u", "m", "e", "r">>, <<"P", "r", "o", "v", "i", "d", "e", "r">> >>

functionPatterns ==
  << [languageId |-> "python",
   patterns |-> <<
     \* /^(async\s+)?def\s+(\w+)/
     Re(Cat(<<Bol, Rep(Grp(1, Cat(<<Str(<<"a", "s", "y", "n", "c">>), Rep(In(SpaceChars), 1, -1)>>)), 0, 1), Str(<<"d", "e", "f">>), Rep(In(SpaceChars), 1, -1), Grp(2, Rep(In(WordChars), 1, -1))>>), 2),
     \* /^class\s+(\w+)/
     Re(Cat(<<Bol, Str(<<"c", "l", "a", "s", "s">>), Rep(In(SpaceChars), 1, -1), Grp(1, Rep(In(WordChars), 1, -1))>>), 1),
     \* /^@\w+\s*(async\s+)?def\s+(\w+)/
     Re(Cat(<<Bol, Str(<<"@">>), Rep(In(WordChars), 1, -1), Rep(In(SpaceChars), 0, -1), Rep(Grp(1, Cat(<<Str(<<"a", "s", "y", "n", "c">>), Rep(In(SpaceChars), 1, -1)>>)), 0, 1), Str(<<"d", "e", "f">>), Rep(In(SpaceChars), 1, -1), Grp(2, Rep(In(WordChars), 1, -1))>>), 2) >>],
  [languageId |-> "typescript",
   patterns |-> <<
     \* /^(async\s+)?function\s+(\w+)/
     Re(Cat(<<Bol, Rep(Grp(1, Cat(<<Str(<<"a", "s", "y", "n", "c">>), Rep(In(SpaceChars), 1, -1)>>)), 0, 1), Str(<<"f", "u", "n", "c", "t", "i", "o", "n">>), Rep(In(SpaceChars), 1, -1), Grp(2, Rep(In(WordChars), 1, -1))>>), 2),
     \* /^(private|public|protected|static\s+)*(async\s+)?(\w+)\s*\(/
     Re(Cat(<<Bol, Rep(Grp(1, Alt(<<Str(<<"p", "r", "i", "v", "a", "t", "e">>), Str(<<"p", "u", "b", "l", "i", "c">>), Str(<<"p", "r", "o", "t", "e", "c", "t", "e", "d">>), Cat(<<Str(<<"s", "t", "a", "t", "i", "c">>), Rep(In(SpaceChars), 1, -1)>>)>>)), 0, -1), Rep(Grp(2, Cat(<<Str(<<"a", "s", "y", "n", "c">>), Rep(In(SpaceChars), 1, -1)>>)), 0, 1), Grp(3, Rep(In(WordChars), 1, -1)), Rep(In(SpaceChars), 0, -1), Str(<<"(">>)>>), 3),
     \* /^interface\s+(\w+)/
     Re(Cat(<<Bol, Str(<<"i", "n", "t", "e", "r", "f", "a", "c", "e">>), Rep(In(SpaceChars), 1, -1), Grp(1, Rep(In(WordChars), 1, -1))>>), 1),
     \* /^type\s+(\w+)/
     Re(Cat(<<Bol, Str(<<"t", "y", "p", "e">>), Rep(In(SpaceChars), 1, -1), Grp(1, Rep(In(WordChars), 1, -1))>>), 1),
     \* /^class\s+(\w+)/
     Re(Cat(<<Bol, Str(<<"c", "l", "a", "s", "s">>), Rep(In(SpaceChars), 1, -1), Grp(1, Rep(In(WordChars), 1, -1))>>), 1),
     \* /^enum\s+(\w+)/
     Re(Cat(<<Bol, Str(<<"e", "n", "u", "m">>), Rep(In(SpaceChars), 1, -1), Grp(1, Rep(In(WordChars), 1, -1))>>), 1),
     \* /^const\s+(\w+)\s*=/
     Re(Cat(<<Bol, Str(<<"c", "o", "n", "s", "t">>), Rep(In(SpaceChars), 1, -1), Grp(1, Rep(In(WordChars), 1, -1)), Rep(In(SpaceChars), 0, -1), Str(<<"=">>)>>), 1),
     \* /^let\s+(\w+)\s*=/
     Re(Cat(<<Bol, Str(<<"l", "e", "t">>), Rep(In(SpaceChars), 1, -1), Grp(1, Rep(In(WordChars), 1, -1)), Rep(In(SpaceChars), 0, -1), Str(<<"=">>)>>), 1),
     \* /^var\s+(\w+)\s*=/
     Re(Cat(<<Bol, Str(<<"v", "a", "r">>), Rep(In(SpaceChars), 1, -1), Grp(1, Rep(In(WordChars), 1, -1)), Rep(In(SpaceChars), 0, -1), Str(<<"=">>)>>), 1) >>],
  [languageId |-> "javascript",
   patterns |-> <<
     \* /^(async\s+)?function\s+(\w+)/
     Re(Cat(<<Bol, Rep(Grp(1, Cat(<<Str(<<"a", "s", "y", "n", "c">>), Rep(In(SpaceChars), 1, -1)>>)), 0, 1), Str(<<"f", "u", "n", "c", "t", "i", "o", "n">>), Rep(In(SpaceChars), 1, -1), Grp(2, Rep(In(WordChars), 1, -1))>>), 2),
     \* /^class\s+(\w+)/
     Re(Cat(<<Bol, Str(<<"c", "l", "a", "s", "s">>), Rep(In(SpaceChars), 1, -1), Grp(1, Rep(In(WordChars), 1, -1))>>), 1),
     \* /^(static\s+)?(get|set)\s+(\w+)/
     Re(Cat(<<Bol, Rep(Grp(1, Cat(<<Str(<<"s", "t", "a", "t", "i", "c">>), Rep(In(SpaceChars), 1, -1)>>)), 0, 1), Grp(2, Alt(<<Str(<<"g", "e", "t">>), Str(<<"s", "e", "t">>)>>)), Rep(In(SpaceChars), 1, -1), Grp(3, Rep(In(WordChars), 1, -1))>>), 3),
     \* /^(const|let|var)\s+(\w+)\s*=/
     Re(Cat(<<Bol, Grp(1, Alt(<<Str(<<"c", "o", "n", "s", "t">>), Str(<<"l", "e", "t">>), Str(<<"v", "a", "r">>)>>)), Rep(In(SpaceChars), 1, -1), Grp(2, Rep(In(WordChars), 1, -1)), Rep(In(SpaceChars), 0, -1), Str(<<"=">>)>>), 2) >>],
  [languageId |-> "java",
   patterns |-> <<
     \* /^(public|private|protected)\s+(static\s+)?(final\s+)?\w+(\s*<[^>]+>)?\s+(\w+)\s*\(/
     Re(Cat(<<Bol, Grp(1, Cat(<<Str(<<"p">>), Alt(<<Str(<<"u", "b", "l", "i", "c">>), Str(<<"r", "i", "v", "a", "t", "e">>), Str(<<"r", "o", "t", "e", "c", "t", "e", "d">>)>>)>>)), Rep(In(SpaceChars), 1, -1), Rep(Grp(2, Cat(<<Str(<<"s", "t", "a", "t", "i", "c">>), Rep(In(SpaceChars), 1, -1)>>)), 0, 1), Rep(Grp(3, Cat(<<Str(<<"f", "i", "n", "a", "l">>), Rep(In(SpaceChars), 1, -1)>>)), 0, 1), Rep(In(WordChars), 1, -1), Rep(Grp(4, Cat(<<Rep(In(SpaceChars), 0, -1), Str(<<"<">>), Rep(NotIn({">"}), 1, -1), Str(<<">">>)>>)), 0, 1), Rep(In(SpaceChars), 1, -1), Grp(5, Rep(In(WordChars), 1, -1)), Rep(In(SpaceChars), 0, -1), Str(<<"(">>)>>), 5),
     \* /^class\s+(\w+)/
     Re(Cat(<<Bol, Str(<<"c", "l", "a", "s", "s">>), Rep(In(SpaceChars), 1, -1), Grp(1, Rep(In(WordChars), 1, -1))>>), 1),
     \* /^interface\s+(\w+)/
     Re(Cat(<<Bol, Str(<<"i", "n", "t", "e", "r", "f", "a", "c", "e">>), Rep(In(SpaceChars), 1, -1), Grp(1, Rep(In(WordChars), 1, -1))>>), 1),
     \* /^enum\s+(\w+)/
     Re(Cat(<<Bol, Str(<<"e", "n", "u", "m">>), Rep(In(SpaceChars), 1, -1), Grp(1, Rep(In(WordChars), 1, -1))>>), 1),
     \* /^@\w+\s*(\w+)/
     Re(Cat(<<Bol, Str(<<"@">>), Rep(In(WordChars), 1, -1), Rep(In(SpaceChars), 0, -1), Grp(1, Rep(In(WordChars), 1, -1))>>), 1) >>],
  [languageId |-> "kotlin",
   patterns |-> <<
     \* /^fun\s+(\w+)/
     Re(Cat(<<Bol, Str(<<"f", "u", "n">>), Rep(In(SpaceChars), 1, -1), Grp(1, Rep(In(WordChars), 1, -1))>>), 1),
     \* /^class\s+(\w+)/
     Re(Cat(<<Bol, Str(<<"c", "l", "a", "s", "s">>), Rep(In(SpaceChars), 1, -1), Grp(1, Rep(In(WordChars), 1, -1))>>), 1),
     \* /^object\s+(\w+)/
     Re(Cat(<<Bol, Str(<<"o", "b", "j", "e", "c", "t">>), Rep(In(SpaceChars), 1, -1), Grp(1, Rep(In(WordChars), 1, -1))>>), 1),
     \* /^interface\s+(\w+)/
     Re(Cat(<<Bol, Str(<<"i", "n", "t", "e", "r", "f", "a", "c", "e">>), Rep(In(SpaceChars), 1, -1), Grp(1, Rep(In(WordChars), 1, -1))>>), 1),
     \* /^data\s+class\s+(\w+)/
     Re(Cat(<<Bol, Str(<<"d", "a", "t", "a">>), Rep(In(SpaceChars), 1, -1), Str(<<"c", "l", "a", "s", "s">>), Rep(In(SpaceChars), 1, -1), Grp(1, Rep(In(WordChars), 1, -1))>>), 1) >>],
  [languageId |-> "rust",
   patterns |-> <<
     \* /^fn\s+(\w+)/
     Re(Cat(<<Bol, Str(<<"f", "n">>), Rep(In(SpaceChars), 1, -1), Grp(1, Rep(In(WordChars), 1, -1))>>), 1),
     \* /^struct\s+(\w+)/
     Re(Cat(<<Bol, Str(<<"s", "t", "r", "u", "c", "t">>), Rep(In(SpaceChars), 1, -1), Grp(1, Rep(In(WordChars), 1, -1))>>), 1),
     \* /^enum\s+(\w+)/
     Re(Cat(<<Bol, Str(<<"e", "n", "u", "m">>), Rep(In(SpaceChars), 1, -1), Grp(1, Rep(In(WordChars), 1, -1))>>), 1),
     \* /^trait\s+(\w+)/
     Re(Cat(<<Bol, Str(<<"t", "r", "a", "i", "t">>), Rep(In(SpaceChars), 1, -1), Grp(1, Rep(In(WordChars), 1, -1))>>), 1),
     \* /^impl\s+(\w+)/
     Re(Cat(<<Bol, Str(<<"i", "m", "p", "l">>), Rep(In(SpaceChars), 1, -1), Grp(1, Rep(In(WordChars), 1, -1))>>), 1),
     \* /^type\s+(\w+)/
     Re(Cat(<<Bol, Str(<<"t", "y", "p", "e">>), Rep(In(SpaceChars), 1, -1), Grp(1, Rep(In(WordChars), 1, -1))>>), 1),
     \* /^pub(\s*\([^\)]+\))?\s+fn\s+(\w+)/
     Re(Cat(<<Bol, Str(<<"p", "u", "b">>), Rep(Grp(1, Cat(<<Rep(In(SpaceChars), 0, -1), Str(<<"(">>), Rep(NotIn({")"}), 1, -1), Str(<<")">>)>>)), 0, 1), Rep(In(SpaceChars), 1, -1), Str(<<"f", "n">>), Rep(In(SpaceChars), 1, -1), Grp(2, Rep(In(WordChars), 1, -1))>>), 2) >>],
  [languageId |-> "go",
   patterns |-> <<
     \* /^func\s+(\w+)/
     Re(Cat(<<Bol, Str(<<"f", "u", "n", "c">>), Rep(In(SpaceChars), 1, -1), Grp(1, Rep(In(WordChars), 1, -1))>>), 1),
     \* /^type\s+(\w+)/
     Re(Cat(<<Bol, Str(<<"t", "y", "p", "e">>), Rep(In(SpaceChars), 1, -1), Grp(1, Rep(In(WordChars), 1, -1))>>), 1),
     \* /^interface\s+(\w+)/
     Re(Cat(<<Bol, Str(<<"i", "n", "t", "e", "r", "f", "a", "c", "e">>), Rep(In(SpaceChars), 1, -1), Grp(1, Rep(In(WordChars), 1, -1))>>), 1),
     \* /^struct\s+(\w+)/
     Re(Cat(<<Bol, Str(<<"s", "t", "r", "u", "c", "t">>), Rep(In(SpaceChars), 1, -1), Grp(1, Rep(In(WordChars), 1, -1))>>), 1) >>],
  [languageId |-> "csharp",
   patterns |-> <<
     \* /^(public|private|protected|internal)\s+(static\s+)?(async\s+)?\w+(\s*<[^>]+>)?\s+(\w+)\s*\(/
     Re(Cat(<<Bol, Grp(1, Alt(<<Str(<<"p", "u", "b", "l", "i", "c">>), Str(<<"p", "r", "i", "v", "a", "t", "e">>), Str(<<"p", "r", "o", "t", "e", "c", "t", "e", "d">>), Str(<<"i", "n", "t", "e", "r", "n", "a", "l">>)>>)), Rep(In(SpaceChars), 1, -1), Rep(Grp(2, Cat(<<Str(<<"s", "t", "a", "t", "i", "c">>), Rep(In(SpaceChars), 1, -1)>>)), 0, 1), Rep(Grp(3, Cat(<<Str(<<"a", "s", "y", "n", "c">>), Rep(In(SpaceChars), 1, -1)>>)), 0, 1), Rep(In(WordChars), 1, -1), Rep(Grp(4, Cat(<<Rep(In(SpaceChars), 0, -1), Str(<<"<">>), Rep(NotIn({">"}), 1, -1), Str(<<">">>)>>)), 0, 1), Rep(In(SpaceChars), 1, -1), Grp(5, Rep(In(WordChars), 1, -1)), Rep(In(SpaceChars), 0, -1), Str(<<"(">>)>>), 5),
     \* /^class\s+(\w+)/
     Re(Cat(<<Bol, Str(<<"c", "l", "a", "s", "s">>), Rep(In(SpaceChars), 1, -1), Grp(1, Rep(In(WordChars), 1, -1))>>), 1),
     \* /^interface\s+(\w+)/
     Re(Cat(<<Bol, Str(<<"i", "n", "t", "e", "r", "f", "a", "c", "e">>), Rep(In(SpaceChars), 1, -1), Grp(1, Rep(In(WordChars), 1, -1))>>), 1),
     \* /^enum\s+(\w+)/
     Re(Cat(<<Bol, Str(<<"e", "n", "u", "m">>), Rep(In(SpaceChars), 1, -1), Grp(1, Rep(In(WordChars), 1, -1))>>), 1),
     \* /^struct\s+(\w+)/
     Re(Cat(<<Bol, Str(<<"s", "t", "r", "u", "c", "t">>), Rep(In(SpaceChars), 1, -1), Grp(1, Rep(In(WordChars), 1, -1))>>), 1),
     \* /^record\s+(\w+)/
     Re(Cat(<<Bol, Str(<<"r", "e", "c", "o", "r", "d">>), Rep(In(SpaceChars), 1, -1), Grp(1, Rep(In(WordChars), 1, -1))>>), 1),
     \* /^\[[\w\.]+\]\s*(\w+)/
     Re(Cat(<<Bol, Str(<<"[">>), Rep(In(WordChars \cup {"."}), 1, -1), Str(<<"]">>), Rep(In(SpaceChars), 0, -1), Grp(1, Rep(In(WordChars), 1, -1))>>), 1) >>],
  [languageId |-> "php",
   patterns |-> <<
     \* /^(public|private|protected)\s+(static\s+)?(function)\s+(\w+)/
     Re(Cat(<<Bol, Grp(1, Cat(<<Str(<<"p">>), Alt(<<Str(<<"u", "b", "l", "i", "c">>), Str(<<"r", "i", "v", "a", "t", "e">>), Str(<<"r", "o", "t", "e", "c", "t", "e", "d">>)>>)>>)), Rep(In(SpaceChars), 1, -1), Rep(Grp(2, Cat(<<Str(<<"s", "t", "a", "t", "i", "c">>), Rep(In(SpaceChars), 1, -1)>>)), 0, 1), Grp(3, Str(<<"f", "u", "n", "c", "t", "i", "o", "n">>)), Rep(In(SpaceChars), 1, -1), Grp(4, Rep(In(WordChars), 1, -1))>>), 4),
     \* /^class\s+(\w+)/
     Re(Cat(<<Bol, Str(<<"c", "l", "a", "s", "s">>), Rep(In(SpaceChars), 1, -1), Grp(1, Rep(In(WordChars), 1, -1))>>), 1),
     \* /^interface\s+(\w+)/
     Re(Cat(<<Bol, Str(<<"i", "n", "t", "e", "r", "f", "a", "c", "e">>), Rep(In(SpaceChars), 1, -1), Grp(1, Rep(In(WordChars), 1, -1))>>), 1),
     \* /^trait\s+(\w+)/
     Re(Cat(<<Bol, Str(<<"t", "r", "a", "i", "t">>), Rep(In(SpaceChars), 1, -1), Grp(1, Rep(In(WordChars), 1, -1))>>), 1),
     \* /^namespace\s+(\w+)/
     Re(Cat(<<Bol, Str(<<"n", "a", "m", "e", "s", "p", "a", "c", "e">>), Rep(In(SpaceChars), 1, -1), Grp(1, Rep(In(WordChars), 1, -1))>>), 1) >>],
  [languageId |-> "swift",
   patterns |-> <<
     \* /^func\s+(\w+)/
     Re(Cat(<<Bol, Str(<<"f", "u", "n", "c">>), Rep(In(SpaceChars), 1, -1), Grp(1, Rep(In(WordChars), 1, -1))>>), 1),
     \* /^class\s+(\w+)/
     Re(Cat(<<Bol, Str(<<"c", "l", "a", "s", "s">>), Rep(In(SpaceChars), 1, -1), Grp(1, Rep(In(WordChars), 1, -1))>>), 1),
     \* /^struct\s+(\w+)/
     Re(Cat(<<Bol, Str(<<"s", "t", "r", "u", "c", "t">>), Rep(In(SpaceChars), 1, -1), Grp(1, Rep(In(WordChars), 1, -1))>>), 1),
     \* /^enum\s+(\w+)/
     Re(Cat(<<Bol, Str(<<"e", "n", "u", "m">>), Rep(In(SpaceChars), 1, -1), Grp(1, Rep(In(WordChars), 1, -1))>>), 1),
     \* /^protocol\s+(\w+)/
     Re(Cat(<<Bol, Str(<<"p", "r", "o", "t", "o", "c", "o", "l">>), Rep(In(SpaceChars), 1, -1), Grp(1, Rep(In(WordChars), 1, -1))>>), 1),
     \* /^extension\s+(\w+)/
     Re(Cat(<<Bol, Str(<<"e", "x", "t", "e", "n", "s", "i", "o", "n">>), Rep(In(SpaceChars), 1, -1), Grp(1, Rep(In(WordChars), 1, -1))>>), 1) >>],
  [languageId |-> "ruby",
   patterns |-> <<
     \* /^def\s+(\w+)/
     Re(Cat(<<Bol, Str(<<"d", "e", "f">>), Rep(In(SpaceChars), 1, -1), Grp(1, Rep(In(WordChars), 1, -1))>>), 1),
     \* /^class\s+(\w+)/
     Re(Cat(<<Bol, Str(<<"c", "l", "a", "s", "s">>), Rep(In(SpaceChars), 1, -1), Grp(1, Rep(In(WordChars), 1, -1))>>), 1),
     \* /^module\s+(\w+)/
     Re(Cat(<<Bol, Str(<<"m", "o", "d", "u", "l", "e">>), Rep(In(SpaceChars), 1, -1), Grp(1, Rep(In(WordChars), 1, -1))>>), 1),
     \* /^attr_\w+\s+:(\w+)/
     Re(Cat(<<Bol, Str(<<"a", "t", "t", "r", "_">>), Rep(In(WordChars), 1, -1), Rep(In(SpaceChars), 1, -1), Str(<<":">>), Grp(1, Rep(In(WordChars), 1, -1))>>), 1) >>],
  [languageId |-> "scala",
   patterns |-> <<
     \* /^def\s+(\w+)/
     Re(Cat(<<Bol, Str(<<"d", "e", "f">>), Rep(In(SpaceChars), 1, -1), Grp(1, Rep(In(WordChars), 1, -1))>>), 1),
     \* /^class\s+(\w+)/
     Re(Cat(<<Bol, Str(<<"c", "l", "a", "s", "s">>), Rep(In(SpaceChars), 1, -1), Grp(1, Rep(In(WordChars), 1, -1))>>), 1),
     \* /^object\s+(\w+)/
     Re(Cat(<<Bol, Str(<<"o", "b", "j", "e", "c", "t">>), Rep(In(SpaceChars), 1, -1), Grp(1, Rep(In(WordChars), 1, -1))>>), 1),
     \* /^trait\s+(\w+)/
     Re(Cat(<<Bol, Str(<<"t", "r", "a", "i", "t">>), Rep(In(SpaceChars), 1, -1), Grp(1, Rep(In(WordChars), 1, -1))>>), 1),
     \* /^type\s+(\w+)/
     Re(Cat(<<Bol, Str(<<"t", "y", "p", "e">>), Rep(In(SpaceChars), 1, -1), Grp(1, Rep(In(WordChars), 1, -1))>>), 1),
     \* /^case\s+class\s+(\w+)/
     Re(Cat(<<Bol, Str(<<"c", "a", "s", "e">>), Rep(In(SpaceChars), 1, -1), Str(<<"c", "l", "a", "s", "s">>), Rep(In(SpaceChars), 1, -1), Grp(1, Rep(In(WordChars), 1, -1))>>), 1) >>],
  [languageId |-> "react",
   patterns |-> <<
     \* /^(function|const)\s+(\w+)\s*:\s*(React\.)?FC(\<[^>]+\>)?/
     Re(Cat(<<Bol, Grp(1, Alt(<<Str(<<"f", "u", "n", "c", "t", "i", "o", "n">>), Str(<<"c", "o", "n", "s", "t">>)>>)), Rep(In(SpaceChars), 1, -1), Grp(2, Rep(In(WordChars), 1, -1)), Rep(In(SpaceChars), 0, -1), Str(<<":">>), Rep(In(SpaceChars), 0, -1), Rep(Grp(3, Str(<<"R", "e", "a", "c", "t", ".">>)), 0, 1), Str(<<"F", "C">>), Rep(Grp(4, Cat(<<Str(<<"<">>), Rep(NotIn({">"}), 1, -1), Str(<<">">>)>>)), 0, 1)>>), 4),
     \* /^(function|const)\s+(\w+)\s*:\s*(React\.)?FunctionComponent(\<[^>]+\>)?/
     Re(Cat(<<Bol, Grp(1, Alt(<<Str(<<"f", "u", "n", "c", "t", "i", "o", "n">>), Str(<<"c", "o", "n", "s", "t">>)>>)), Rep(In(SpaceChars), 1, -1), Grp(2, Rep(In(WordChars), 1, -1)), Rep(In(SpaceChars), 0, -1), Str(<<":">>), Rep(In(SpaceChars), 0, -1), Rep(Grp(3, Str(<<"R", "e", "a", "c", "t", ".">>)), 0, 1), Str(<<"F", "u", "n", "c", "t", "i", "o", "n", "C", "o", "m", "p", "o", "n", "e", "n", "t">>), Rep(Grp(4, Cat(<<Str(<<"<">>), Rep(NotIn({">"}), 1, -1), Str(<<">">>)>>)), 0, 1)>>), 4),
     \* /^(export\s+)?(function|const)\s+(\w+)\s*=\s*\(\s*props\s*:\s*[^)]*\)\s*=>/
     Re(Cat(<<Bol, Rep(Grp(1, Cat(<<Str(<<"e", "x", "p", "o", "r", "t">>), Rep(In(SpaceChars), 1, -1)>>)), 0, 1), Grp(2, Alt(<<Str(<<"f", "u", "n", "c", "t", "i", "o", "n">>), Str(<<"c", "o", "n", "s", "t">>)>>)), Rep(In(SpaceChars), 1, -1), Grp(3, Rep(In(WordChars), 1, -1)), Rep(In(SpaceChars), 0, -1), Str(<<"=">>), Rep(In(SpaceChars), 0, -1), Str(<<"(">>), Rep(In(SpaceChars), 0, -1), Str(<<"p", "r", "o", "p", "s">>), Rep(In(SpaceChars), 0, -1), Str(<<":">>), Rep(In(SpaceChars), 0, -1), Rep(NotIn({")"}), 0, -1), Str(<<")">>), Rep(In(SpaceChars), 0, -1), Str(<<"=", ">">>)>>), 3),
     \* /^class\s+(\w+)\s+extends\s+(React\.)?Component/
     Re(Cat(<<Bol, Str(<<"c", "l", "a", "s", "s">>), Rep(In(SpaceChars), 1, -1), Grp(1, Rep(In(WordChars), 1, -1)), Rep(In(SpaceChars), 1, -1), Str(<<"e", "x", "t", "e", "n", "d", "s">>), Rep(In(SpaceChars), 1, -1), Rep(Grp(2, Str(<<"R", "e", "a", "c", "t", ".">>)), 0, 1), Str(<<"C", "o", "m", "p", "o", "n", "e", "n", "t">>)>>), 2),
     \* /^class\s+(\w+)\s+extends\s+(React\.)?PureComponent/
     Re(Cat(<<Bol, Str(<<"c", "l", "a", "s", "s">>), Rep(In(SpaceChars), 1, -1), Grp(1, Rep(In(WordChars), 1, -1)), Rep(In(SpaceChars), 1, -1), Str(<<"e", "x", "t", "e", "n", "d", "s">>), Rep(In(SpaceChars), 1, -1), Rep(Grp(2, Str(<<"R", "e", "a", "c", "t", ".">>)), 0, 1), Str(<<"P", "u", "r", "e", "C", "o", "m", "p", "o", "n", "e", "n", "t">>)>>), 2),
     \* /^const\s+\[(\w+),\s*set\w+\]\s*=\s*useState/
     Re(Cat(<<Bol, Str(<<"c", "o", "n", "s", "t">>), Rep(In(SpaceChars), 1, -1), Str(<<"[">>), Grp(1, Rep(In(WordChars), 1, -1)), Str(<<",">>), Rep(In(SpaceChars), 0, -1), Str(<<"s", "e", "t">>), Rep(In(WordChars), 1, -1), Str(<<"]">>), Rep(In(SpaceChars), 0, -1), Str(<<"=">>), Rep(In(SpaceChars), 0, -1), Str(<<"u", "s", "e", "S", "t", "a", "t", "e">>)>>), 1),
     \* /^const\s+(\w+)\s*=\s*useRef/
     Re(Cat(<<Bol, Str(<<"c", "o", "n", "s", "t">>), Rep(In(SpaceChars), 1, -1), Grp(1, Rep(In(WordChars), 1, -1)), Rep(In(SpaceChars), 0, -1), Str(<<"=">>), Rep(In(SpaceChars), 0, -1), Str(<<"u", "s", "e", "R", "e", "f">>)>>), 1),
     \* /^const\s+(\w+)\s*=\s*useMemo/
     Re(Cat(<<Bol, Str(<<"c", "o", "n", "s", "t">>), Rep(In(SpaceChars), 1, -1), Grp(1, Rep(In(WordChars), 1, -1)), Rep(In(SpaceChars), 0, -1), Str(<<"=">>), Rep(In(SpaceChars), 0, -1), Str(<<"u", "s", "e", "M", "e", "m", "o">>)>>), 1),
     \* /^const\s+(\w+)\s*=\s*useCallback/
     Re(Cat(<<Bol, Str(<<"c", "o", "n", "s", "t">>), Rep(In(SpaceChars), 1, -1), Grp(1, Rep(In(WordChars), 1, -1)), Rep(In(SpaceChars), 0, -1), Str(<<"=">>), Rep(In(SpaceChars), 0, -1), Str(<<"u", "s", "e", "C", "a", "l", "l", "b", "a", "c", "k">>)>>), 1),
     \* /^const\s+(\w+)\s*=\s*useContext/
     Re(Cat(<<Bol, Str(<<"c", "o", "n", "s", "t">>), Rep(In(SpaceChars), 1, -1), Grp(1, Rep(In(WordChars), 1, -1)), Rep(In(SpaceChars), 0, -1), Str(<<"=">>), Rep(In(SpaceChars), 0, -1), Str(<<"u", "s", "e", "C", "o", "n", "t", "e", "x", "t">>)>>), 1),
     \* /^(function|const)\s+use(\w+)/
     Re(Cat(<<Bol, Grp(1, Alt(<<Str(<<"f", "u", "n", "c", "t", "i", "o", "n">>), Str(<<"c", "o", "n", "s", "t">>)>>)), Rep(In(SpaceChars), 1, -1), Str(<<"u", "s", "e">>), Grp(2, Rep(In(WordChars), 1, -1))>>), 2),
     \* /^const\s+(\w+)\s*=\s*withRouter/
     Re(Cat(<<Bol, Str(<<"c", "o", "n", "s", "t">>), Rep(In(SpaceChars), 1, -1), Grp(1, Rep(In(WordChars), 1, -1)), Rep(In(SpaceChars), 0, -1), Str(<<"=">>), Rep(In(SpaceChars), 0, -1), Str(<<"w", "i", "t", "h", "R", "o", "u", "t", "e", "r">>)>>), 1),
     \* /^const\s+(\w+)\s*=\s*connect/
     Re(Cat(<<Bol, Str(<<"c", "o", "n", "s", "t">>), Rep(In(SpaceChars), 1, -1), Grp(1, Rep(In(WordChars), 1, -1)), Rep(In(SpaceChars), 0, -1), Str(<<"=">>), Rep(In(SpaceChars), 0, -1), Str(<<"c", "o", "n", "n", "e", "c", "t">>)>>), 1) >>],
  [languageId |-> "dart",
   patterns |-> <<
     \* /^class\s+(\w+)(\s+extends\s+\w+)?(\s+implements\s+[\w\s,]+)?/
     Re(Cat(<<Bol, Str(<<"c", "l", "a", "s", "s">>), Rep(In(SpaceChars), 1, -1), Grp(1, Rep(In(WordChars), 1, -1)), Rep(Grp(2, Cat(<<Rep(In(SpaceChars), 1, -1), Str(<<"e", "x", "t", "e", "n", "d", "s">>), Rep(In(SpaceChars), 1, -1), Rep(In(WordChars), 1, -1)>>)), 0, 1), Rep(Grp(3, Cat(<<Rep(In(SpaceChars), 1, -1), Str(<<"i", "m", "p", "l", "e", "m", "e", "n", "t", "s">>), Rep(In(SpaceChars), 1, -1), Rep(In(WordChars \cup SpaceChars \cup {","}), 1, -1)>>)), 0, 1)>>), 3),
     \* /^abstract\s+class\s+(\w+)/
     Re(Cat(<<Bol, Str(<<"a", "b", "s", "t", "r", "a", "c", "t">>), Rep(In(SpaceChars), 1, -1), Str(<<"c", "l", "a", "s", "s">>), Rep(In(SpaceChars), 1, -1), Grp(1, Rep(In(WordChars), 1, -1))>>), 1),
     \* /^mixin\s+(\w+)/
     Re(Cat(<<Bol, Str(<<"m", "i", "x", "i", "n">>), Rep(In(SpaceChars), 1, -1), Grp(1, Rep(In(WordChars), 1, -1))>>), 1),
     \* /^extension\s+(\w+)\s+on\s+\w+/
     Re(Cat(<<Bol, Str(<<"e", "x", "t", "e", "n", "s", "i", "o", "n">>), Rep(In(SpaceChars), 1, -1), Grp(1, Rep(In(WordChars), 1, -1)), Rep(In(SpaceChars), 1, -1), Str(<<"o", "n">>), Rep(In(SpaceChars), 1, -1), Rep(In(WordChars), 1, -1)>>), 1),
     \* /^(async\s+)?(\w+\s+)?(\w+)\s*\([^)]*\)\s*(async\s* )?\{/
     Re(Cat(<<Bol, Rep(Grp(1, Cat(<<Str(<<"a", "s", "y", "n", "c">>), Rep(In(SpaceChars), 1, -1)>>)), 0, 1), Rep(Grp(2, Cat(<<Rep(In(WordChars), 1, -1), Rep(In(SpaceChars), 1, -1)>>)), 0, 1), Grp(3, Rep(In(WordChars), 1, -1)), Rep(In(SpaceChars), 0, -1), Str(<<"(">>), Rep(NotIn({")"}), 0, -1), Str(<<")">>), Rep(In(SpaceChars), 0, -1), Rep(Grp(4, Cat(<<Str(<<"a", "s", "y", "n", "c">>), Rep(In(SpaceChars), 0, -1)>>)), 0, 1), Str(<<"{">>)>>), 4),
     \* /^(get|set)\s+(\w+)/
     Re(Cat(<<Bol, Grp(1, Alt(<<Str(<<"g", "e", "t">>), Str(<<"s", "e", "t">>)>>)), Rep(In(SpaceChars), 1, -1), Grp(2, Rep(In(WordChars), 1, -1))>>), 2),
     \* /^factory\s+(\w+)/
     Re(Cat(<<Bol, Str(<<"f", "a", "c", "t", "o", "r", "y">>), Rep(In(SpaceChars), 1, -1), Grp(1, Rep(In(WordChars), 1, -1))>>), 1),
     \* /^(\w+)\.(\w+)/
     Re(Cat(<<Bol, Grp(1, Rep(In(WordChars), 1, -1)), Str(<<".">>), Grp(2, Rep(In(WordChars), 1, -1))>>), 2),
     \* /^(final|const|var|late)\s+(\w+)/
     Re(Cat(<<Bol, Grp(1, Alt(<<Str(<<"f", "i", "n", "a", "l">>), Str(<<"c", "o", "n", "s", "t">>), Str(<<"v", "a", "r">>), Str(<<"l", "a", "t", "e">>)>>)), Rep(In(SpaceChars), 1, -1), Grp(2, Rep(In(WordChars), 1, -1))>>), 2),
     \* /^class\s+(\w+)\s+extends\s+(StatelessWidget|StatefulWidget)/
     Re(Cat(<<Bol, Str(<<"c", "l", "a", "s", "s">>), Rep(In(SpaceChars), 1, -1), Grp(1, Rep(In(WordChars), 1, -1)), Rep(In(SpaceChars), 1, -1), Str(<<"e", "x", "t", "e", "n", "d", "s">>), Rep(In(SpaceChars), 1, -1), Grp(2, Cat(<<Str(<<"S", "t", "a", "t", "e">>), Alt(<<Str(<<"l", "e", "s", "s", "W", "i", "d", "g", "e", "t">>), Str(<<"f", "u", "l", "W", "i", "d", "g", "e", "t">>)>>)>>))>>), 2),
     \* /^class\s+_?(\w+)State\s+extends\s+State/
     Re(Cat(<<Bol, Str(<<"c", "l", "a", "s", "s">>), Rep(In(SpaceChars), 1, -1), Rep(Str(<<"_">>), 0, 1), Grp(1, Rep(In(WordChars), 1, -1)), Str(<<"S", "t", "a", "t", "e">>), Rep(In(SpaceChars), 1, -1), Str(<<"e", "x", "t", "e", "n", "d", "s">>), Rep(In(SpaceChars), 1, -1), Str(<<"S", "t", "a", "t", "e">>)>>), 1) >>] >>

languagePatterns ==
  << [languageId |-> "python",
   patterns |-> <<
     \* /^(async\s+)?def\s+\w+\s*\([^)]*\)\s*(->\s*[^:]+)?\s*:\s*$/
     Re(Cat(<<Bol, Rep(Grp(1, Cat(<<Str(<<"a", "s", "y", "n", "c">>), Rep(In(SpaceChars), 1, -1)>>)), 0, 1), Str(<<"d", "e", "f">>), Rep(In(SpaceChars), 1, -1), Rep(In(WordChars), 1, -1), Rep(In(SpaceChars), 0, -1), Str(<<"(">>), Rep(NotIn({")"}), 0, -1), Str(<<")">>), Rep(In(SpaceChars), 0, -1), Rep(Grp(2, Cat(<<Str(<<"-", ">">>), Rep(In(SpaceChars), 0, -1), Rep(NotIn({":"}), 1, -1)>>)), 0, 1), Rep(In(SpaceChars), 0, -1), Str(<<":">>), Rep(In(SpaceChars), 0, -1), Eol>>), 2),
     \* /^class\s+\w+(\s*\([^)]*\))?\s*:\s*$/
     Re(Cat(<<Bol, Str(<<"c", "l", "a", "s", "s">>), Rep(In(SpaceChars), 1, -1), Rep(In(WordChars), 1, -1), Rep(Grp(1, Cat(<<Rep(In(SpaceChars), 0, -1), Str(<<"(">>), Rep(NotIn({")"}), 0, -1), Str(<<")">>)>>)), 0, 1), Rep(In(SpaceChars), 0, -1), Str(<<":">>), Rep(In(SpaceChars), 0, -1), Eol>>), 1),
     \* /^(if|elif|else|for|while|with|try|except|finally)\s*.*:\s*$/
     Re(Cat(<<Bol, Grp(1, Alt(<<Str(<<"i", "f">>), Str(<<"e", "l", "i", "f">>), Str(<<"e", "l", "s", "e">>), Str(<<"f", "o", "r">>), Str(<<"w", "h", "i", "l", "e">>), Str(<<"w", "i", "t", "h">>), Str(<<"t", "r", "y">>), Str(<<"e", "x", "c", "e", "p", "t">>), Str(<<"f", "i", "n", "a", "l", "l", "y">>)>>)), Rep(In(SpaceChars), 0, -1), Rep(Dot, 0, -1), Str(<<":">>), Rep(In(SpaceChars), 0, -1), Eol>>), 1) >>],
  [languageId |-> "typescript",
   patterns |-> <<
     \* /^interface\s+\w+\s*$/
     Re(Cat(<<Bol, Str(<<"i", "n", "t", "e", "r", "f", "a", "c", "e">>), Rep(In(SpaceChars), 1, -1), Rep(In(WordChars), 1, -1), Rep(In(SpaceChars), 0, -1), Eol>>), 0),
     \* /^type\s+\w+\s*=\s*$/
     Re(Cat(<<Bol, Str(<<"t", "y", "p", "e">>), Rep(In(SpaceChars), 1, -1), Rep(In(WordChars), 1, -1), Rep(In(SpaceChars), 0, -1), Str(<<"=">>), Rep(In(SpaceChars), 0, -1), Eol>>), 0),
     \* /=>\s*$/
     Re(Cat(<<Str(<<"=", ">">>), Rep(In(SpaceChars), 0, -1), Eol>>), 0) >>],
  [languageId |-> "javascript",
   patterns |-> <<
     \* /=>\s*$/
     Re(Cat(<<Str(<<"=", ">">>), Rep(In(SpaceChars), 0, -1), Eol>>), 0),
     \* /\{\s*$/
     Re(Cat(<<Str(<<"{">>), Rep(In(SpaceChars), 0, -1), Eol>>), 0),
     \* /\[\s*$/
     Re(Cat(<<Str(<<"[">>), Rep(In(SpaceChars), 0, -1), Eol>>), 0) >>] >>

generalPatterns ==
  << \* /[{(\[]\s*$/
     Re(Cat(<<In({"{", "(", "["}), Rep(In(SpaceChars), 0, -1), Eol>>), 0),
     \* /\.\w+\(\)\s*$/
     Re(Cat(<<Str(<<".">>), Rep(In(WordChars), 1, -1), Str(<<"(", ")">>), Rep(In(SpaceChars), 0, -1), Eol>>), 0),
     \* /[+\-*/%&|^]=?\s*$/
     Re(Cat(<<In({"+", "-", "*", "/", "%", "&", "|", "^"}), Rep(Str(<<"=">>), 0, 1), Rep(In(SpaceChars), 0, -1), Eol>>), 0),
     \* /(SELECT|INSERT|UPDATE|DELETE|FROM|WHERE|GROUP BY|ORDER BY|HAVING)\s*$/i
     Re(Cat(<<Grp(1, Alt(<<Cat(<<In({"S", "s"}), In({"E", "e"}), In({"L", "l"}), In({"E", "e"}), In({"C", "c"}), In({"T", "t"})>>), Cat(<<In({"I", "i"}), In({"N", "n"}), In({"S", "s"}), In({"E", "e"}), In({"R", "r"}), In({"T", "t"})>>), Cat(<<In({"U", "u"}), In({"P", "p"}), In({"D", "d"}), In({"A", "a"}), In({"T", "t"}), In({"E", "e"})>>), Cat(<<In({"D", "d"}), In({"E", "e"}), In({"L", "l"}), In({"E", "e"}), In({"T", "t"}), In({"E", "e"})>>), Cat(<<In({"F", "f"}), In({"R", "r"}), In({"O", "o"}), In({"M", "m"})>>), Cat(<<In({"W", "w"}), In({"H", "h"}), In({"E", "e"}), In({"R", "r"}), In({"E", "e"})>>), Cat(<<In({"G", "g"}), In({"R", "r"}), In({"O", "o"}), In({"U", "u"}), In({"P", "p"}), Str(<<" ">>), In({"B", "b"}), In({"Y", "y"})>>), Cat(<<In({"O", "o"}), In({"R", "r"}), In({"D", "d"}), In({"E", "e"}), In({"R", "r"}), Str(<<" ">>), In({"B", "b"}), In({"Y", "y"})>>), Cat(<<In({"H", "h"}), In({"A", "a"}), In({"V", "v"}), In({"I", "i"}), In({"N", "n"}), In({"G", "g"})>>)>>)), Rep(In(SpaceChars), 0, -1), Eol>>), 1),
     \* /^(if|for|while|switch|catch|function|class|interface|namespace)\s+.*$/
     Re(Cat(<<Bol, Grp(1, Alt(<<Str(<<"i", "f">>), Str(<<"f", "o", "r">>), Str(<<"w", "h", "i", "l", "e">>), Str(<<"s", "w", "i", "t", "c", "h">>), Str(<<"c", "a", "t", "c", "h">>), Str(<<"f", "u", "n", "c", "t", "i", "o", "n">>), Str(<<"c", "l", "a", "s", "s">>), Str(<<"i", "n", "t", "e", "r", "f", "a", "c", "e">>), Str(<<"n", "a", "m", "e", "s", "p", "a", "c", "e">>)>>)), Rep(In(SpaceChars), 1, -1), Rep(Dot, 0, -1), Eol>>), 1),
     \* /^(public|private|protected|static|async)\s+(function|method|void|[\w<>]+)\s+\w+\s*\([^)]*\)\s*$/
     Re(Cat(<<Bol, Grp(1, Alt(<<Str(<<"p", "u", "b", "l", "i", "c">>), Str(<<"p", "r", "i", "v", "a", "t", "e">>), Str(<<"p", "r", "o", "t", "e", "c", "t", "e", "d">>), Str(<<"s", "t", "a", "t", "i", "c">>), Str(<<"a", "s", "y", "n", "c">>)>>)), Rep(In(SpaceChars), 1, -1), Grp(2, Alt(<<Str(<<"f", "u", "n", "c", "t", "i", "o", "n">>), Str(<<"m", "e", "t", "h", "o", "d">>), Str(<<"v", "o", "i", "d">>), Rep(In(WordChars \cup {"<", ">"}), 1, -1)>>)), Rep(In(SpaceChars), 1, -1), Rep(In(WordChars), 1, -1), Rep(In(SpaceChars), 0, -1), Str(<<"(">>), Rep(NotIn({")"}), 0, -1), Str(<<")">>), Rep(In(SpaceChars), 0, -1), Eol>>), 2),
     \* /^@\w+(\s*\([^)]*\))?\s*$/
     Re(Cat(<<Bol, Str(<<"@">>), Rep(In(WordChars), 1, -1), Rep(Grp(1, Cat(<<Rep(In(SpaceChars), 0, -1), Str(<<"(">>), Rep(NotIn({")"}), 0, -1), Str(<<")">>)>>)), 0, 1), Rep(In(SpaceChars), 0, -1), Eol>>), 1),
     \* /\.(then|catch|finally)\(\s*$/
     Re(Cat(<<Str(<<".">>), Grp(1, Alt(<<Str(<<"t", "h", "e", "n">>), Str(<<"c", "a", "t", "c", "h">>), Str(<<"f", "i", "n", "a", "l", "l", "y">>)>>)), Str(<<"(">>), Rep(In(SpaceChars), 0, -1), Eol>>), 1),
     \* /U0060[^U0060]*$/
     Re(Cat(<<Str(<<"U0060">>), Rep(NotIn({"U0060"}), 0, -1), Eol>>), 0),
     \* /\/\*\*\s*$/
     Re(Cat(<<Str(<<"/", "*", "*">>), Rep(In(SpaceChars), 0, -1), Eol>>), 0),
     \* /<[^>]+>\s*$/
     Re(Cat(<<Str(<<"<">>), Rep(NotIn({">"}), 1, -1), Str(<<">">>), Rep(In(SpaceChars), 0, -1), Eol>>), 0),
     \* /^(const|let|var)\s+\w+\s*=\s*$/
     Re(Cat(<<Bol, Grp(1, Alt(<<Str(<<"c", "o", "n", "s", "t">>), Str(<<"l", "e", "t">>), Str(<<"v", "a", "r">>)>>)), Rep(In(SpaceChars), 1, -1), Rep(In(WordChars), 1, -1), Rep(In(SpaceChars), 0, -1), Str(<<"=">>), Rep(In(SpaceChars), 0, -1), Eol>>), 1) >>

lineBreakRulesV1 ==
  << \* /^import\s+.*/
     [pattern |-> Re(Cat(<<Bol, Str(<<"i", "m", "p", "o", "r", "t">>), Rep(In(SpaceChars), 1, -1), Rep(Dot, 0, -1)>>), 0),
      shouldBreak |-> TRUE, indentNextLine |-> FALSE],
     \* /^(async\s+)?function\s*.*\)\s*{?\s*$/
     [pattern |-> Re(Cat(<<Bol, Rep(Grp(1, Cat(<<Str(<<"a", "s", "y", "n", "c">>), Rep(In(SpaceChars), 1, -1)>>)), 0, 1), Str(<<"f", "u", "n", "c", "t", "i", "o", "n">>), Rep(In(SpaceChars), 0, -1), Rep(Dot, 0, -1), Str(<<")">>), Rep(In(SpaceChars), 0, -1), Rep(Str(<<"{">>), 0, 1), Rep(In(SpaceChars), 0, -1), Eol>>), 1),
      shouldBreak |-> TRUE, indentNextLine |-> TRUE],
     \* /^class\s+.*{?\s*$/
     [pattern |-> Re(Cat(<<Bol, Str(<<"c", "l", "a", "s", "s">>), Rep(In(SpaceChars), 1, -1), Rep(Dot, 0, -1), Rep(Str(<<"{">>), 0, 1), Rep(In(SpaceChars), 0, -1), Eol>>), 0),
      shouldBreak |-> TRUE, indentNextLine |-> TRUE],
     \* /^\s*(async\s+)?[\w]+\s*\(.*\)\s*{?\s*$/
     [pattern |-> Re(Cat(<<Bol, Rep(In(SpaceChars), 0, -1), Rep(Grp(1, Cat(<<Str(<<"a", "s", "y", "n", "c">>), Rep(In(SpaceChars), 1, -1)>>)), 0, 1), Rep(In(WordChars), 1, -1), Rep(In(SpaceChars), 0, -1), Str(<<"(">>), Rep(Dot, 0, -1), Str(<<")">>), Rep(In(SpaceChars), 0, -1), Rep(Str(<<"{">>), 0, 1), Rep(In(SpaceChars), 0, -1), Eol>>), 1),
      shouldBreak |-> TRUE, indentNextLine |-> TRUE],
     \* /^(if|for|while|switch)\s*\(.*\)\s*{?\s*$/
     [pattern |-> Re(Cat(<<Bol, Grp(1, Alt(<<Str(<<"i", "f">>), Str(<<"f", "o", "r">>), Str(<<"w", "h", "i", "l", "e">>), Str(<<"s", "w", "i", "t", "c", "h">>)>>)), Rep(In(SpaceChars), 0, -1), Str(<<"(">>), Rep(Dot, 0, -1), Str(<<")">>), Rep(In(SpaceChars), 0, -1), Rep(Str(<<"{">>), 0, 1), Rep(In(SpaceChars), 0, -1), Eol>>), 1),
      shouldBreak |-> TRUE, indentNextLine |-> TRUE],
     \* /.*[+\-*/=]\s*$/
     [pattern |-> Re(Cat(<<Rep(Dot, 0, -1), In({"+", "-", "*", "/", "="}), Rep(In(SpaceChars), 0, -1), Eol>>), 0),
      shouldBreak |-> TRUE, indentNextLine |-> FALSE] >>

\* /\b([\w_]+)$/
partialWordPattern == Re(Cat(<<Wb, Grp(1, Rep(In(WordChars \cup {"_"}), 1, -1)), Eol>>), 1)

\* /^[\w_<>[\](){}]/
followingTextPattern == Re(Cat(<<Bol, In(WordChars \cup {"_", "<", ">", "[", "]", "(", ")", "{", "}"})>>), 0)

\* /[{(\[]/
openBracketPattern == Re(In({"{", "(", "["}), 0)

\* /[})\]]/
closeBracketPattern == Re(In({"}", ")", "]"}), 0)

\* /\b(\w+)$/
partialKeywordPattern == Re(Cat(<<Wb, Grp(1, Rep(In(WordChars), 1, -1)), Eol>>), 1)

\* /^[\s\t]*/
indentationPattern == Re(Cat(<<Bol, Rep(In(SpaceChars \cup {"\t"}), 0, -1)>>), 0)


\* new RegExp(`\\b${keyword}\\b\\s*$`)
keywordRegex(keyword) ==
  Re(Cat(<<Wb, Str(keyword), Wb, Rep(In(SpaceChars), 0, -1), Eol>>), 0)

\* new RegExp(`^\\s*${keyword}\\b`)
duplicateKeywordRegex(keyword) ==
  Re(Cat(<<Bol, Rep(In(SpaceChars), 0, -1), Str(keyword), Wb>>), 0)

maxLineLength == 100

(***************************************************************************)
(* CompletionFormatter: the operations.                                    *)
(***************************************************************************)
\* the range from the start of the position's line to the position
RangeFromLineStart(pos) ==
  [start |-> [line |-> pos.line, character |-> 0], end |-> pos]

\* new vscode.Range(position, position)
RangeAt(pos) == [start |-> pos, end |-> pos]

\* document.lineAt(line).text
LineAt(doc, line) == doc.lines[line + 1]

\* match ? match[0] : '' of a match of s
MatchedText(s, match) == IF match.ok THEN MatchGroup(s, match, 0) ELSE <<>>

getIndentation(line) == MatchedText(line, Exec(indentationPattern, line))

\* the indentation extended by tabSize spaces whatever insertSpaces is
increaseIndentationBySpaces(currentIndent) == currentIndent \o Spaces(tabSize)

increaseIndentation(currentIndent) ==
  IF insertSpaces
  THEN currentIndent \o Spaces(tabSize)
  ELSE currentIndent \o <<"\t">>

\* the next line indented whether or not the rule has indentNextLine
formatWithRuleIndented(rule, pos, completion, currentIndentation) ==
  [text |-> IF rule.shouldBreak
            THEN <<"\n">> \o increaseIndentation(currentIndentation)
                   \o TrimLeft(completion)
            ELSE completion,
   range |-> RangeAt(pos)]

formatWithRule(rule, pos, completion, currentIndentation) ==
  LET nextIndentation ==
        IF rule.indentNextLine
        THEN increaseIndentation(currentIndentation)
        ELSE currentIndentation
      formattedCompletion ==
        IF rule.shouldBreak
        THEN <<"\n">> \o nextIndentation \o TrimLeft(completion)
        ELSE completion
  IN [text |-> formattedCompletion, range |-> RangeAt(pos)]

\* the index a loop over 1..n returns with when it returns at the first index
\* in the set hits; 0 when it ends without returning
FirstOf(hits) == IF hits = {} THEN 0 ELSE Least(hits)

\* the last matching rule instead of the first
LastRule(rules, linePrefix) ==
  LET hits == {j \in 1..Len(rules) : Test(rules[j].pattern, linePrefix)}
  IN IF hits = {} THEN 0 ELSE Greatest(hits)

\* for (const rule of rules) { if (rule.pattern.test(linePrefix)) return ... }
\* the index of the rule the loop returns with, 0 when it ends without
\* returning
FirstRule(rules, linePrefix) ==
  FirstOf({j \in 1..Len(rules) : Test(rules[j].pattern, linePrefix)})

\* the loop of completionFormatter.ts: it returns at the first rule that
\* matches and has shouldBreak, and goes on after a rule that matches without
FirstBreakingRule(rules, linePrefix) ==
  FirstOf({j \in 1..Len(rules) :
             Test(rules[j].pattern, linePrefix) /\ rules[j].shouldBreak})

\* table[languageId] || [] of a table keyed by language id
ForLanguage(table, languageId, field) ==
  LET at == {k \in 1..Len(table) : table[k].languageId = languageId}
  IN IF at = {} THEN <<>> ELSE table[CHOOSE k \in at : TRUE][field]

RECURSIVE AllPatterns(_, _)
\* the patterns of Object.entries(functionPatterns), in the order of the two
\* nested loops
AllPatterns(table, k) ==
  IF k > Len(table) THEN <<>>
  ELSE table[k].patterns \o AllPatterns(table, k + 1)

declarationPatterns == AllPatterns(functionPatterns, 1)

\* the test of the first strategy for one pattern: the prefix matches, the
\* completion matches, and the last capture groups are the same
\* the test of the first strategy on the two matches of one pattern
SameName(pattern, trimmedPrefix, trimmedCompletion, prefixMatch, completionMatch) ==
  /\ prefixMatch.ok
  /\ completionMatch.ok
  /\ MatchGroup(trimmedCompletion, completionMatch, pattern.ng)
       = MatchGroup(trimmedPrefix, prefixMatch, pattern.ng)

\* the two matches of one pattern, and the test on them
SameDeclaration(pattern, trimmedPrefix, trimmedCompletion) ==
  SameName(pattern, trimmedPrefix, trimmedCompletion,
           Exec(pattern, trimmedPrefix), Exec(pattern, trimmedCompletion))

\* the index of the pattern the loops of the first strategy return with, or 0
FirstDeclaration(trimmedPrefix, trimmedCompletion) ==
  FirstOf({j \in 1..Len(declarationPatterns) :
             SameDeclaration(declarationPatterns[j], trimmedPrefix,
                             trimmedCompletion)})

\* the index of the keyword the loop of the third strategy returns with, or 0.
\* The two tests of a keyword have no effect but their result, and the
\* anchored one is written first; a keyword that the trimmed completion does
\* not start with fails it, and is set aside by comparing the characters.
DuplicateKeyword(keyword, trimmedPrefix, trimmedCompletion) ==
  /\ StartsWith(trimmedCompletion, keyword)
  /\ Test(duplicateKeywordRegex(keyword), trimmedCompletion)
  /\ Test(keywordRegex(keyword), trimmedPrefix)

FirstKeyword(trimmedPrefix, trimmedCompletion) ==
  FirstOf({j \in 1..Len(keywords) :
             DuplicateKeyword(keywords[j], trimmedPrefix, trimmedCompletion)})

\* The three strategies of removeDuplicateKeywords: whether the strategy
\* returns, and the text it returns.
NotStripped == [ok |-> FALSE, text |-> <<>>]

Stripped(text) == [ok |-> TRUE, text |-> text]

\* completion.slice(prefixMatch[0].length).trimLeft()
AfterMatch(trimmedCompletion, prefixMatch) ==
  TrimLeft(Slice(trimmedCompletion, prefixMatch.e - prefixMatch.b))

\* the return of the first strategy at declaration pattern d (0: none)
signatureStripAt(d, trimmedPrefix, trimmedCompletion) ==
  IF d = 0 THEN NotStripped
  ELSE Stripped(AfterMatch(trimmedCompletion,
                           Exec(declarationPatterns[d], trimmedPrefix)))

\* "Handle function definitions with partial matches"
signatureStrip(trimmedPrefix, trimmedCompletion) ==
  signatureStripAt(FirstDeclaration(trimmedPrefix, trimmedCompletion),
                   trimmedPrefix, trimmedCompletion)

\* the partial word stripped only when a word character follows it
followingWordStrip(trimmedCompletion, partialWord, followingText) ==
  IF /\ StartsWith(trimmedCompletion, partialWord)
     /\ followingText # <<>>
     /\ followingText[1] \in WordChars
  THEN Stripped(followingText)
  ELSE NotStripped

\* the test and the return of the second strategy, given the text that
\* follows the partial word in the completion
followingTextStrip(trimmedCompletion, partialWord, followingText) ==
  IF /\ StartsWith(trimmedCompletion, partialWord)
     /\ Test(followingTextPattern, followingText)
  THEN Stripped(followingText)
  ELSE NotStripped

\* the second strategy, given the partial word the prefix ends with
partialWordStripOf(trimmedCompletion, partialWord) ==
  followingTextStrip(trimmedCompletion, partialWord,
                     Slice(trimmedCompletion, Len(partialWord)))

\* the second strategy, given the match of the partial-word pattern
partialWordStripAt(partialWordMatch, trimmedPrefix, trimmedCompletion) ==
  IF partialWordMatch.ok
  THEN partialWordStripOf(trimmedCompletion,
                          MatchGroup(trimmedPrefix, partialWordMatch, 1))
  ELSE NotStripped

\* "Handle partial word completions with more context"
partialWordStrip(trimmedPrefix, trimmedCompletion) ==
  partialWordStripAt(Exec(partialWordPattern, trimmedPrefix),
                     trimmedPrefix, trimmedCompletion)

\* the text without the match of the pattern, not trimmed
WithoutMatchUntrimmed(trimmedCompletion, keywordMatch) ==
  SubSeq(trimmedCompletion, 1, keywordMatch.b)
    \o Slice(trimmedCompletion, keywordMatch.e)

\* trimmedCompletion.replace(duplicateKeywordRegex, '').trim(): the text
\* without the match of the pattern
WithoutMatch(trimmedCompletion, keywordMatch) ==
  Trim(SubSeq(trimmedCompletion, 1, keywordMatch.b)
       \o Slice(trimmedCompletion, keywordMatch.e))

\* the return of the third strategy at keyword k (0: none)
keywordStripAt(k, trimmedCompletion) ==
  IF k = 0 THEN NotStripped
  ELSE Stripped(WithoutMatch(trimmedCompletion,
                             Exec(duplicateKeywordRegex(keywords[k]),
                                  trimmedCompletion)))

\* "Check for common keyword duplicates"
keywordStrip(trimmedPrefix, trimmedCompletion) ==
  keywordStripAt(FirstKeyword(trimmedPrefix, trimmedCompletion),
                 trimmedCompletion)

\* the return statement by of a strategy that strips, or else what follows
ReturnBy(by, strip, otherwise) ==
  IF strip.ok THEN [by |-> by, text |-> strip.text] ELSE otherwise

\* the partial-word strategy tried before the signature strategy
PartialWordFirstResolution(linePrefix, completion) ==
  LET trimmedPrefix == Trim(linePrefix)
      trimmedCompletion == Trim(completion)
  IN ReturnBy("partialWord",
              partialWordStrip(trimmedPrefix, trimmedCompletion),
       ReturnBy("signature",
                signatureStrip(trimmedPrefix, trimmedCompletion),
         ReturnBy("keyword",
                  keywordStrip(trimmedPrefix, trimmedCompletion),
                  [by |-> "none", text |-> completion])))

\* removeDuplicateKeywords, with the return statement it leaves by:
\* "signature" (line 445), "partialWord" (459), "keyword" (471), "none" (476)
DuplicateResolution(linePrefix, completion) ==
  LET trimmedPrefix == Trim(linePrefix)
      trimmedCompletion == Trim(completion)
  IN ReturnBy("signature",
              signatureStrip(trimmedPrefix, trimmedCompletion),
       ReturnBy("partialWord",
                partialWordStrip(trimmedPrefix, trimmedCompletion),
         ReturnBy("keyword",
                  keywordStrip(trimmedPrefix, trimmedCompletion),
                  [by |-> "none", text |-> completion])))

\* the completion returned as it came
keepCompletion(linePrefix, completion) == completion

removeDuplicateKeywords(linePrefix, completion) ==
  DuplicateResolution(linePrefix, completion).text

\* detectContext without its context field, which nothing reads
PartialDefinition(lastLine, partialKeywordMatch) ==
  [isPartialDefinition |-> partialKeywordMatch.ok,
   partialKeyword |-> IF partialKeywordMatch.ok
                      THEN MatchGroup(lastLine, partialKeywordMatch, 1)
                      ELSE <<>>]

detectContextOf(lastLine) ==
  PartialDefinition(lastLine, Exec(partialKeywordPattern, lastLine))

detectContext(linePrefix) == detectContextOf(Trim(linePrefix))

adjustCompletionForPartialDefinition(completion, partialKeyword) ==
  IF StartsWith(completion, partialKeyword)
  THEN TrimLeft(Slice(completion, Len(partialKeyword)))
  ELSE completion

\* whether one of the patterns matches s
AnyPattern(patterns, s) == \E j \in 1..Len(patterns) : Test(patterns[j], s)

\* (s.match(re) || []).length for a pattern re with the g flag that matches
\* one character: the number of places where it matches
CountMatches(s, re) ==
  Cardinality({b \in 0..(Len(s) - 1) : ExecFrom(re, s, b).ok})

shouldAddLineBreak(linePrefix, languageId) ==
  \/ AnyPattern(ForLanguage(languagePatterns, languageId, "patterns"),
                Trim(linePrefix))
  \/ AnyPattern(generalPatterns, Trim(linePrefix))
  \/ CountMatches(linePrefix, openBracketPattern)
       > CountMatches(linePrefix, closeBracketPattern)
  \/ Len(linePrefix) > maxLineLength

applyFormattingRules(pos, completion, currentIndentation, linePrefix, languageId) ==
  LET context == detectContext(linePrefix)
      adjusted ==
        IF context.isPartialDefinition
        THEN adjustCompletionForPartialDefinition(completion,
                                                  context.partialKeyword)
        ELSE completion
      addLineBreak == shouldAddLineBreak(linePrefix, languageId)
      nextIndentation ==
        IF addLineBreak
        THEN increaseIndentation(currentIndentation)
        ELSE currentIndentation
      formattedText ==
        IF addLineBreak
        THEN <<"\n">> \o nextIndentation \o adjusted
        ELSE adjusted
  IN [text |-> formattedText, range |-> RangeAt(pos)]

\* the general rules tried before the rules of the language
formatCompletionGeneralFirst(doc, pos, completion) ==
  LET currentLine == LineAt(doc, pos.line)
      currentIndentation == getIndentation(currentLine)
      linePrefix == Substring0(currentLine, pos.character)
      languageId == doc.languageId
      languageRules == ForLanguage(languageSpecificRules, languageId, "rules")
      l == FirstRule(languageRules, linePrefix)
      g == FirstRule(lineBreakRules, linePrefix)
  IN IF g > 0
     THEN formatWithRule(lineBreakRules[g], pos, completion, currentIndentation)
     ELSE IF l > 0
     THEN formatWithRule(languageRules[l], pos, completion, currentIndentation)
     ELSE applyFormattingRules(pos,
                               removeDuplicateKeywords(linePrefix, completion),
                               currentIndentation, linePrefix, languageId)

formatCompletion(doc, pos, completion) ==
  LET currentLine == LineAt(doc, pos.line)
      currentIndentation == getIndentation(currentLine)
      linePrefix == Substring0(currentLine, pos.character)
      languageId == doc.languageId
      languageRules == ForLanguage(languageSpecificRules, languageId, "rules")
      l == FirstRule(languageRules, linePrefix)
      g == FirstRule(lineBreakRules, linePrefix)
  IN IF l > 0
     THEN formatWithRule(languageRules[l], pos, completion, currentIndentation)
     ELSE IF g > 0
     THEN formatWithRule(lineBreakRules[g], pos, completion, currentIndentation)
     ELSE applyFormattingRules(pos,
                               removeDuplicateKeywords(linePrefix, completion),
                               currentIndentation, linePrefix, languageId)

\* The stripping steps one formatCompletion call applies to the completion, in
\* order: the return statement removeDuplicateKeywords leaves by when it
\* strips, then "partialDefinition" when
\* adjustCompletionForPartialDefinition slices the text it is given.
StripSteps(resolution, context) ==
  (IF resolution.by = "none" THEN <<>> ELSE <<resolution.by>>)
  \o (IF /\ context.isPartialDefinition
         /\ StartsWith(resolution.text, context.partialKeyword)
      THEN <<"partialDefinition">> ELSE <<>>)

appliedStrips(doc, pos, completion) ==
  LET linePrefix == Substring0(LineAt(doc, pos.line), pos.character)
      languageRules == ForLanguage(languageSpecificRules, doc.languageId, "rules")
  IN IF FirstRule(languageRules, linePrefix) > 0
        \/ FirstRule(lineBreakRules, linePrefix) > 0
     THEN <<>>
     ELSE StripSteps(DuplicateResolution(linePrefix, completion),
                     detectContext(linePrefix))

\* formatCompletion of completionFormatter.ts
formatCompletionV1(doc, pos, completion) ==
  LET currentLine == LineAt(doc, pos.line)
      currentIndentation == getIndentation(currentLine)
      linePrefix == Substring0(currentLine, pos.character)
      b == FirstBreakingRule(lineBreakRulesV1, linePrefix)
      nextIndentation ==
        IF lineBreakRulesV1[b].indentNextLine
        THEN increaseIndentation(currentIndentation)
        ELSE currentIndentation
  IN IF b > 0
     THEN [text |-> <<"\n">> \o nextIndentation \o TrimLeft(completion),
           range |-> RangeAt(pos)]
     ELSE [text |-> completion, range |-> RangeAt(pos)]
SamplePrefixes ==
  {
    \* ''
    <<>>,
    \* '   '
    <<" ", " ", " ">>,
    \* 'import '
    <<"i", "m", "p", "o", "r", "t", " ">>,
    \* '  if (x > 0) '
    <<" ", " ", "i", "f", " ", "(", "x", " ", ">", " ", "0", ")", " ">>,
    \* 'def calc'
    <<"d", "e", "f", " ", "c", "a", "l", "c">>,
    \* 'return '
    <<"r", "e", "t", "u", "r", "n", " ">>,
    \* 'def foo'
    <<"d", "e", "f", " ", "f", "o", "o">>,
    \* 'class Foo'
    <<"c", "l", "a", "s", "s", " ", "F", "o", "o">>,
    \* 'foo'
    <<"f", "o", "o">>,
    \* 'a.b'
    <<"a", ".", "b">>,
    \* 'import {'
    <<"i", "m", "p", "o", "r", "t", " ", "{">>,
    \* 'class A:'
    <<"c", "l", "a", "s", "s", " ", "A", ":">>,
    \* 'def f() -> int:'
    <<"d", "e", "f", " ", "f", "(", ")", " ", "-", ">", " ", "i", "n", "t", ":">>,
    \* 'impl A for B<'
    <<"i", "m", "p", "l", " ", "A", " ", "f", "o", "r", " ", "B", "<">>,
    \* 'x = '
    <<"x", " ", "=", " ">>,
    \* 'foo('
    <<"f", "o", "o", "(">>,
    \* a line of blanks longer than maxLineLength
    Spaces(maxLineLength + 1)
  }

SampleCompletions ==
  {
    \* "import React from 'react';"
    <<"i", "m", "p", "o", "r", "t", " ", "R", "e", "a", "c", "t", " ", "f", "r", "o", "m", " ", "'", "r", "e", "a", "c", "t", "'", ";">>,
    \* 'if (x > 0) { return true; }'
    <<"i", "f", " ", "(", "x", " ", ">", " ", "0", ")", " ", "{", " ", "r", "e", "t", "u", "r", "n", " ", "t", "r", "u", "e", ";", " ", "}">>,
    \* 'calculate_sum(a, b):'
    <<"c", "a", "l", "c", "u", "l", "a", "t", "e", "_", "s", "u", "m", "(", "a", ",", " ", "b", ")", ":">>,
    \* 'return x + y;'
    <<"r", "e", "t", "u", "r", "n", " ", "x", " ", "+", " ", "y", ";">>,
    \* 'return return_value;'
    <<"r", "e", "t", "u", "r", "n", " ", "r", "e", "t", "u", "r", "n", "_", "v", "a", "l", "u", "e", ";">>,
    \* 'def foo(a):'
    <<"d", "e", "f", " ", "f", "o", "o", "(", "a", ")", ":">>,
    \* 'class Bar {'
    <<"c", "l", "a", "s", "s", " ", "B", "a", "r", " ", "{">>,
    \* 'foofoo(x)'
    <<"f", "o", "o", "f", "o", "o", "(", "x", ")">>,
    \* 'foo(x)'
    <<"f", "o", "o", "(", "x", ")">>,
    \* 'bb.b('
    <<"b", "b", ".", "b", "(">>,
    \* ' x + 1'
    <<" ", "x", " ", "+", " ", "1">>,
    \* 'foo(x) '
    <<"f", "o", "o", "(", "x", ")", " ">>
  }


(***************************************************************************)
(* ContextAwareness.                                                       *)
(*                                                                         *)
(* A document is [lines, eol]: its lines without their line terminators,   *)
(* and the terminator that getText puts between them ("\n" or "\r\n").     *)
(* An editor is [document, selection], selection the cursor's line.        *)
(***************************************************************************)
maxWindowSize == 250

NoEditor == [open |-> FALSE]

Editor(doc, line) == [open |-> TRUE, document |-> doc, selection |-> line]

\* the pieces document.getText() is the concatenation of: every line but the
\* last is followed by the terminator
PieceAt(doc, i) ==
  doc.lines[i] \o (IF i < Len(doc.lines) THEN doc.eol ELSE <<>>)

Pieces(doc) == [i \in 1..Len(doc.lines) |-> PieceAt(doc, i)]

\* document.getText().split('\n'): a line holds no "\n", so the text is cut
\* at the "\n" that ends each piece, and what comes before it stays
SplitText(doc) ==
  [i \in 1..Len(doc.lines) |->
     LET piece == PieceAt(doc, i)
     IN IF piece # <<>> /\ piece[Len(piece)] = "\n"
        THEN SubSeq(piece, 1, Len(piece) - 1)
        ELSE piece]

RECURSIVE Concat(_, _, _)
\* pieces[from] ... pieces[to] as one string
Concat(pieces, from, to) ==
  IF from > to THEN <<>>
  ELSE pieces[from] \o Concat(pieces, from + 1, to)

\* document.getText(new vscode.Range(startLine, 0, endLine, 0)): a negative
\* line number is refused by the Range constructor; a range that ends past
\* the document is cut at the document's end
getTextOfLines(doc, startLine, endLine) ==
  IF startLine < 0 \/ endLine < 0
  THEN [thrown |-> TRUE, text |-> <<>>]
  ELSE [thrown |-> FALSE,
        text |-> Concat(Pieces(doc), startLine + 1,
                        Min(endLine, Len(doc.lines)))]

\* the document's lines pushed behind the window's, the oldest dropped
updateSlidingWindowAppending(editor, window) ==
  IF ~editor.open THEN window
  ELSE LET lines == window \o SplitText(editor.document)
           startLine == Max(0, Len(lines) - maxWindowSize)
       IN SubSeq(lines, startLine + 1, Len(lines))

\* the window after updateSlidingWindow
updateSlidingWindow(editor, window) ==
  IF ~editor.open THEN window
  ELSE LET lines == SplitText(editor.document)
           startLine == Max(0, Len(lines) - maxWindowSize)
       IN SubSeq(lines, startLine + 1, Len(lines))

\* the neighbourhood one line further down
getContextThroughEndLine(editor) ==
  IF ~editor.open THEN [thrown |-> FALSE, text |-> <<>>]
  ELSE LET cursorPosition == editor.selection
           totalLines == Len(editor.document.lines)
           startLine == Max(0, cursorPosition - 25)
           endLine == Min(totalLines, cursorPosition + 25)
       IN getTextOfLines(editor.document, startLine, endLine + 1)

getSurroundingContext(editor) ==
  IF ~editor.open THEN [thrown |-> FALSE, text |-> <<>>]
  ELSE LET cursorPosition == editor.selection
           totalLines == Len(editor.document.lines)
           startLine == Max(0, cursorPosition - 25)
           endLine == Min(totalLines, cursorPosition + 25)
       IN getTextOfLines(editor.document, startLine, endLine)

\* the suggestion put in front of the log
trackFirst(log, suggestion) == <<suggestion>> \o log

\* this.acceptedSuggestions.push(suggestion)
trackAcceptedSuggestion(log, suggestion) == Append(log, suggestion)

\* getUserContext called while the active editor is editor.  The bundle holds
\* the manager's own arrays: recentLines is the array updateSlidingWindow has
\* just made, acceptedSuggestions the log itself.
GetUserContext(editor) ==
  LET window == updateSlidingWindow(editor, slidingWindow)
      surroundingContext == getSurroundingContext(editor)
  IN /\ slidingWindow' = window
     /\ thrown' = (thrown \/ surroundingContext.thrown)
     /\ userContext' =
          IF surroundingContext.thrown THEN userContext
          ELSE [returned |-> TRUE,
                recentLines |-> window,
                acceptedSuggestions |-> acceptedSuggestions,
                surroundingContext |-> surroundingContext.text]
     /\ readEditor' = editor

(***************************************************************************)
(* The formatter applied to bounded inputs.                                *)
(***************************************************************************)
Languages == {"python", "rust", "typescript"}

\* the manager as the constructor leaves it, with no editor open
ContextIdle ==
  /\ activeTextEditor = NoEditor
  /\ slidingWindow = <<>>
  /\ acceptedSuggestions = <<>>
  /\ userContext = [returned |-> FALSE]
  /\ tracked = <<>>
  /\ acceptedIn = {}
  /\ readEditor = NoEditor
  /\ thrown = FALSE

\* fetchCompletion has not been called
NotFetched == [by |-> "none", provider |-> "", model |-> "none"]

\* no completion request has been made
NoRequest ==
  /\ request = "none"
  /\ isCancellationRequested = FALSE
  /\ items = <<>>
  /\ requestWrote = {}
  /\ userInput = <<>>
  /\ fetched = NotFetched

FormatInit ==
  /\ document \in {[languageId |-> l, lines |-> <<x>>] :
                     l \in Languages, x \in SamplePrefixes}
  /\ position = [line |-> 0, character |-> Len(document.lines[1])]
  /\ completionText \in SampleCompletions
  /\ insertSpaces \in BOOLEAN
  /\ tabSize = 4
  /\ formatted = [text |-> <<>>, range |-> RangeAt(position)]
  /\ resolved = <<>>
  /\ strips = <<>>
  /\ fpc = "ready"
  /\ ContextIdle
  /\ NoRequest

LinePrefix == Substring0(LineAt(document, position.line), position.character)

\* formatCompletion of the formatter with the language tables
FormatCompletion ==
  /\ fpc = "ready"
  /\ formatted' = formatCompletion(document, position, completionText)
  /\ strips' = appliedStrips(document, position, completionText)
  /\ fpc' = "formatted"
  /\ UNCHANGED <<document, position, completionText, insertSpaces, tabSize,
                 resolved, cvars, pvars>>

\* formatCompletion of completionFormatter.ts
FormatCompletionV1 ==
  /\ fpc = "ready"
  /\ formatted' = formatCompletionV1(document, position, completionText)
  /\ fpc' = "formattedV1"
  /\ UNCHANGED <<document, position, completionText, insertSpaces, tabSize,
                 resolved, strips, cvars, pvars>>

\* removeDuplicateKeywords called on the request's prefix and completion
Resolve ==
  /\ fpc = "ready"
  /\ resolved' = <<removeDuplicateKeywords(LinePrefix, completionText)>>
  /\ fpc' = "resolved"
  /\ UNCHANGED <<document, position, completionText, insertSpaces, tabSize,
                 formatted, strips, cvars, pvars>>

\* removeDuplicateKeywords called again, on its own result
ResolveAgain ==
  /\ fpc = "resolved"
  /\ resolved' = Append(resolved,
                        removeDuplicateKeywords(LinePrefix, resolved[1]))
  /\ fpc' = "resolvedAgain"
  /\ UNCHANGED <<document, position, completionText, insertSpaces, tabSize,
                 formatted, strips, cvars, pvars>>

FormatNext ==
  \/ FormatCompletion
  \/ FormatCompletionV1
  \/ Resolve
  \/ ResolveAgain

SpecFormat == FormatInit /\ [][FormatNext]_vars

(***************************************************************************)
(* The context manager driven by the editor's events.                      *)
(***************************************************************************)
\* documents have up to maxWindowSize + MaxOver lines
MaxOver == 1

\* at most MaxLog suggestions are accepted
MaxLog == 2

Digits == <<"0", "1", "2", "3", "4", "5", "6", "7", "8", "9">>

\* the text of line i of a document: its number
LineText(i) ==
  <<Digits[((i \div 100) % 10) + 1], Digits[((i \div 10) % 10) + 1],
    Digits[(i % 10) + 1]>>

LineCounts == {1, 2, 51} \cup (maxWindowSize..(maxWindowSize + MaxOver))

\* two documents, one for each terminator, at all their lengths
Uris == [a |-> <<"\n">>, b |-> <<"\r", "\n">>]

Documents ==
  {[uri |-> u, lines |-> [i \in 1..n |-> LineText(i)], eol |-> Uris[u]] :
     n \in LineCounts, u \in DOMAIN Uris}

\* the uri of the document an editor shows
UriOf(editor) == IF editor.open THEN editor.document.uri ELSE "none"

\* the uri of the document of an open editor, as a set
OpenUris(editor) == IF editor.open THEN {editor.document.uri} ELSE {}

\* the cursor lines tried in a document of n lines
CursorLines(n) == {c \in {0, 25, n - 1} : c < n}

Editors ==
  {NoEditor}
    \cup UNION {{Editor(d, c) : c \in CursorLines(Len(d.lines))} : d \in Documents}

\* what args?.item?.label can be: nothing, the empty string, a text
Labels == {<<>>, <<"a">>, <<"b">>}

Init ==
  /\ activeTextEditor \in Editors
  /\ slidingWindow = <<>>
  /\ acceptedSuggestions = <<>>
  /\ userContext = [returned |-> FALSE]
  /\ tracked = <<>>
  /\ acceptedIn = {}
  /\ readEditor = NoEditor
  /\ thrown = FALSE
  /\ document = [languageId |-> "plaintext", lines |-> << <<>> >>]
  /\ position = [line |-> 0, character |-> 0]
  /\ completionText = <<>>
  /\ insertSpaces = TRUE
  /\ tabSize = 4
  /\ formatted = [text |-> <<>>, range |-> RangeAt(position)]
  /\ resolved = <<>>
  /\ strips = <<>>
  /\ fpc = "idle"
  /\ NoRequest

\* the active document's text changes (to another length, the cursor with
\* it); the onDidChangeTextDocument listener calls getUserContext
DidChangeTextDocument ==
  /\ activeTextEditor.open
  /\ \E e \in Editors :
       /\ e.open
       /\ e.document.uri = activeTextEditor.document.uri
       /\ e.document # activeTextEditor.document
       /\ activeTextEditor' = e
       /\ GetUserContext(e)
  /\ UNCHANGED <<acceptedSuggestions, tracked, acceptedIn, fvars, pvars>>

\* another editor, or none, becomes the active one; the
\* onDidChangeActiveTextEditor listener calls getUserContext
DidChangeActiveTextEditor ==
  /\ \E e \in Editors :
       /\ UriOf(e) # UriOf(activeTextEditor)
       /\ e.open => e.selection = 0
       /\ activeTextEditor' = e
       /\ GetUserContext(e)
  /\ UNCHANGED <<acceptedSuggestions, tracked, acceptedIn, fvars, pvars>>

\* the cursor moves; the extension listens to no selection event
MoveCursor ==
  /\ activeTextEditor.open
  /\ \E c \in CursorLines(Len(activeTextEditor.document.lines)) :
       /\ c # activeTextEditor.selection
       /\ activeTextEditor' = [activeTextEditor EXCEPT !.selection = c]
  /\ UNCHANGED <<slidingWindow, acceptedSuggestions, userContext, tracked,
                 acceptedIn,                 readEditor, thrown, fvars, pvars>>

\* the command editor.action.acceptCompletionItem, run with an item whose
\* label is label: a label that is not truthy is not tracked.  The bundle
\* returned earlier holds the log array itself, so it shows the push.
AcceptCompletionItem ==
  /\ Len(acceptedSuggestions) < MaxLog
  /\ \E label \in Labels :
       IF label # <<>>
       THEN /\ acceptedSuggestions' =
                 trackAcceptedSuggestion(acceptedSuggestions, label)
            /\ userContext' =
                 IF userContext.returned
                 THEN [userContext EXCEPT
                         !.acceptedSuggestions =
                            trackAcceptedSuggestion(acceptedSuggestions, label)]
                 ELSE userContext
            /\ tracked' = Append(tracked, label)
            /\ acceptedIn' = acceptedIn \cup OpenUris(activeTextEditor)
       ELSE UNCHANGED <<acceptedSuggestions, userContext, tracked, acceptedIn>>
  /\ UNCHANGED <<activeTextEditor, slidingWindow, readEditor, thrown, fvars, pvars>>

\* the command extension.showUserContext
ShowUserContext ==
  /\ GetUserContext(activeTextEditor)
  /\ UNCHANGED <<activeTextEditor, acceptedSuggestions, tracked, acceptedIn, fvars,
                 pvars>>

Next ==
  \/ DidChangeTextDocument
  \/ DidChangeActiveTextEditor
  \/ MoveCursor
  \/ AcceptCompletionItem
  \/ ShowUserContext

Spec == Init /\ [][Next]_vars
(***************************************************************************)
(* The inline completion provider that activate registers.  A request is   *)
(* made for a document, at the end of one of its lines: the cursor's line  *)
(* when the document's editor is the active one.  The document is the live *)
(* document, so an edit made while the model's completion is awaited is    *)
(* seen when the request resumes.                                          *)
(***************************************************************************)
\* documents of a request have up to MaxLines lines
MaxLines == 2

\* the texts of their lines
RequestLineTexts ==
  {<<>>, <<"i", "m", "p", "o", "r", "t", " ">>, <<"f", "o", "o", "(">>}

\* the request's document, with each of its texts
RequestDocuments ==
  {[uri |-> "a", languageId |-> "typescript", lines |-> ls, eol |-> <<"\n">>] :
     ls \in UNION {[1..n -> RequestLineTexts] : n \in 1..MaxLines}}

RequestEditors ==
  UNION {{Editor(d, c) : c \in 0..(Len(d.lines) - 1)} : d \in RequestDocuments}

\* an editor on another document
OtherEditor ==
  Editor([uri |-> "b", languageId |-> "typescript",
          lines |-> <<<<"b", "a", "r">>>>, eol |-> <<"\n">>], 0)

\* whether the active editor shows the request's document
ShowsDocument(editor, doc) == editor.open /\ editor.document.uri = doc.uri

\* the settings and environment variables fetchCompletion reads: a value
\* that is not set, or is the empty string, is ""
Configurations ==
  [apiKey : {"", "key"}, provider : {"", "openai", "anthropic", "cohere"},
   modelName : {"", "gpt-4o"}]

\* what the model invocation and the output parser do: invoke rejects, parse
\* rejects the response, or parse returns an object with a codeSnippet
ModelReplies ==
  {[kind |-> "rejected", text |-> <<>>], [kind |-> "unparseable", text |-> <<"x">>]}
    \cup {[kind |-> "parsed", text |-> t] :
            t \in {<<>>, <<" ", "x">>, <<"x", " ", "y">>}}

\* the model handle a provider branch leaves in the variable that is invoked
ModelOf(provider) ==
  IF provider = "openai" THEN "ChatOpenAI" ELSE "undefined"

\* the unparsed response returned when the parser rejects it
InvokeUnparsed(model, reply) ==
  IF model = "undefined" \/ reply.kind = "rejected"
  THEN [by |-> "caught", model |-> model, text |-> <<>>]
  ELSE [by |-> IF reply.kind = "parsed" THEN "returned" ELSE "caught",
        model |-> model, text |-> Trim(reply.text)]

\* the try block from "Invoke the model" on: invoking an unset handle throws,
\* and whatever is thrown or rejected is caught
Invoke(model, reply) ==
  IF model = "undefined" \/ reply.kind # "parsed"
  THEN [by |-> "caught", model |-> model, text |-> <<>>]
  ELSE [by |-> "returned", model |-> model, text |-> Trim(reply.text)]

\* fetchCompletion: the return statement it leaves by, the model handle it
\* invoked, and the text it resolves to
fetchCompletion(config, reply) ==
  IF config.apiKey = ""
  THEN [by |-> "missingKey", model |-> "none", text |-> <<>>]
  ELSE IF config.provider = "" \/ config.modelName = ""
  THEN [by |-> "notSelected", model |-> "none", text |-> <<>>]
  ELSE IF config.provider \notin {"openai", "anthropic"}
  THEN [by |-> "unsupported", model |-> "none", text |-> <<>>]
  ELSE Invoke(ModelOf(config.provider), reply)

\* !userInput.trim()
NoUserInput(text) == Trim(text) = <<>>

\* the completion discarded only when the request is cancelled
DiscardedWhenCancelled(completion, cancellationRequested) ==
  cancellationRequested

\* !completionText || token.isCancellationRequested
Discarded(completion, cancellationRequested) ==
  completion = <<>> \/ cancellationRequested

\* document.lineAt(line) throws for a line that is not in the document
LineOutOfRange(doc, line) == line < 0 \/ line >= Len(doc.lines)

\* new vscode.InlineCompletionItem(text, range), then item.range = ...
InlineCompletionItem(formattedCompletion, pos) ==
  [insertText |-> formattedCompletion.text, range |-> RangeAt(pos)]

\* the fields of the manager that differ between two of its states
Written(window, windowAfter, log, logAfter) ==
  (IF windowAfter # window THEN {"slidingWindow"} ELSE {})
    \cup (IF logAfter # log THEN {"acceptedSuggestions"} ELSE {})

\* the lines a request can be made at
RequestLines ==
  IF ShowsDocument(activeTextEditor, document)
  THEN {activeTextEditor.selection}
  ELSE 0..(Len(document.lines) - 1)

ProvideInit ==
  /\ activeTextEditor \in RequestEditors
  /\ document = activeTextEditor.document
  /\ position = [line |-> 0, character |-> 0]
  /\ completionText = <<>>
  /\ insertSpaces = TRUE
  /\ tabSize = 4
  /\ formatted = [text |-> <<>>, range |-> RangeAt(position)]
  /\ resolved = <<>>
  /\ strips = <<>>
  /\ fpc = "idle"
  /\ slidingWindow = <<>>
  /\ acceptedSuggestions = <<>>
  /\ userContext = [returned |-> FALSE]
  /\ tracked = <<>>
  /\ acceptedIn = {}
  /\ readEditor = NoEditor
  /\ thrown = FALSE
  /\ NoRequest

\* provideInlineCompletionItems up to its await: it returns no item for a
\* line without text before the cursor ("noInput"), and else calls
\* getUserContext and starts fetchCompletion ("fetching")
ProvideInlineCompletionItems ==
  /\ request = "none"
  /\ \E line \in RequestLines :
       position' = [line |-> line, character |-> Len(LineAt(document, line))]
  /\ userInput' = Substring0(LineAt(document, position'.line),
                             position'.character)
  /\ IF NoUserInput(userInput')
     THEN /\ request' = "noInput"
          /\ items' = <<>>
          /\ UNCHANGED <<cvars, requestWrote>>
     ELSE /\ GetUserContext(activeTextEditor)
          /\ request' = "fetching"
          /\ UNCHANGED <<activeTextEditor, acceptedSuggestions, tracked, acceptedIn,
                         items>>
          /\ requestWrote' = Written(slidingWindow, slidingWindow',
                                     acceptedSuggestions, acceptedSuggestions')
  /\ UNCHANGED <<document, completionText, insertSpaces, tabSize, formatted,
                 resolved, strips, fpc, isCancellationRequested, fetched>>

\* another editor, or none, becomes the active one before a request; the
\* onDidChangeActiveTextEditor listener calls getUserContext
ChangeActiveTextEditor ==
  /\ request = "none"
  /\ \E e \in {NoEditor, OtherEditor}
                \cup {Editor(document, c) : c \in 0..(Len(document.lines) - 1)} :
       /\ UriOf(e) # UriOf(activeTextEditor)
       /\ activeTextEditor' = e
       /\ GetUserContext(e)
  /\ UNCHANGED <<acceptedSuggestions, tracked, acceptedIn, fvars, pvars>>

\* the document is edited, before a request or while one awaits the model,
\* and the cursor of its editor moves with the edit; the
\* onDidChangeTextDocument listener calls getUserContext
EditDocument ==
  /\ request \in {"none", "fetching"}
  /\ \E e \in RequestEditors :
       /\ e.document # document
       /\ document' = e.document
       /\ activeTextEditor' =
            IF ShowsDocument(activeTextEditor, document)
            THEN e ELSE activeTextEditor
       /\ GetUserContext(activeTextEditor')
  /\ UNCHANGED <<position, completionText, insertSpaces, tabSize, formatted,
                 resolved, strips, fpc, acceptedSuggestions, tracked, acceptedIn,
                 pvars>>

\* the editor cancels the request it is waiting for
CancelRequest ==
  /\ request = "fetching"
  /\ ~isCancellationRequested
  /\ isCancellationRequested' = TRUE
  /\ UNCHANGED <<fvars, cvars, request, items, requestWrote, userInput,
                 fetched>>

\* provideInlineCompletionItems from its await on: fetchCompletion, run with
\* the configuration config and the model's reply, has resolved to text.
\* The request returns no item ("discarded"), or calls
\* formatCompletion, which throws ("thrown") or returns the text of the one
\* item the request returns ("completed")
FetchCompletionResolves ==
  /\ request = "fetching"
  /\ \E config \in Configurations, reply \in ModelReplies :
       /\ fetched' = [by |-> fetchCompletion(config, reply).by,
                      provider |-> config.provider,
                      model |-> fetchCompletion(config, reply).model]
       /\ completionText' = fetchCompletion(config, reply).text
       /\ IF Discarded(completionText', isCancellationRequested)
          THEN /\ request' = "discarded"
               /\ items' = <<>>
               /\ UNCHANGED <<formatted, fpc, thrown>>
          ELSE IF LineOutOfRange(document, position.line)
          THEN /\ request' = "thrown"
               /\ thrown' = TRUE
               /\ fpc' = "thrown"
               /\ UNCHANGED <<formatted, items>>
          ELSE /\ request' = "completed"
               /\ formatted' = formatCompletionV1(document, position,
                                                  completionText')
               /\ fpc' = "formattedV1"
               /\ items' = <<InlineCompletionItem(formatted', position)>>
               /\ UNCHANGED thrown
  /\ UNCHANGED <<document, position, insertSpaces, tabSize, resolved, strips,
                 activeTextEditor, slidingWindow, acceptedSuggestions,
                 userContext, tracked, acceptedIn, readEditor,
                 isCancellationRequested, requestWrote, userInput>>

ProvideNext ==
  \/ ProvideInlineCompletionItems
  \/ ChangeActiveTextEditor
  \/ EditDocument
  \/ CancelRequest
  \/ FetchCompletionResolves

SpecProvide == ProvideInit /\ [][ProvideNext]_vars


(***************************************************************************)
(* Properties of the formatter (checked under SpecFormat).                 *)
(***************************************************************************)
\* the leading white space of the request's line
CurrentIndent ==
  LET line == LineAt(document, position.line)
  IN SubSeq(line, 1, LeadingSpace(line))

\* one indent unit of the editor's settings
IndentUnit == IF insertSpaces THEN Spaces(tabSize) ELSE <<"\t">>

\* text put on a new line, one unit deeper when indentNext
OnNewLine(indentNext, text) ==
  <<"\n">> \o CurrentIndent \o (IF indentNext THEN IndentUnit ELSE <<>>)
    \o text

\* what a rule's decision makes of the raw completion
DecisionText(rule) ==
  IF rule.shouldBreak
  THEN OnNewLine(rule.indentNextLine, TrimLeft(completionText))
  ELSE completionText

\* the indices of the rules of a list that match the line prefix
MatchingRules(rules) ==
  {j \in 1..Len(rules) : Test(rules[j].pattern, LinePrefix)}

\* the rules declared for the document's language
RulesOfLanguage ==
  LET at == {k \in 1..Len(languageSpecificRules) :
               languageSpecificRules[k].languageId = document.languageId}
  IN IF at = {} THEN <<>>
     ELSE languageSpecificRules[CHOOSE k \in at : TRUE].rules

\* the returned text is the decision of the earliest matching rule of the list
EarliestDecides(rules) ==
  LET m == MatchingRules(rules)
  IN m # {} => formatted.text = DecisionText(rules[Least(m)])

\* C1: when the line prefix matches several rules of one rule list,
\* formatCompletion returns the decision (break, indent) of the rule declared
\* first among them; the later ones do not influence the result.  The lists
\* are the language's rules, the general rules (reached when no rule of the
\* language matches) and the rules of completionFormatter.ts.
C1_EarliestRuleDecides ==
  /\ fpc = "formatted" =>
       /\ EarliestDecides(RulesOfLanguage)
       /\ MatchingRules(RulesOfLanguage) = {} => EarliestDecides(lineBreakRules)
  /\ fpc = "formattedV1" => EarliestDecides(lineBreakRulesV1)

\* C1, the case: formatCompletion has returned for a prefix that matches two
\* general rules with different decisions, and no rule of the language
C1_SeveralRulesMatch ==
  /\ fpc = "formatted"
  /\ MatchingRules(RulesOfLanguage) = {}
  /\ \E j, k \in MatchingRules(lineBreakRules) :
       lineBreakRules[j].indentNextLine # lineBreakRules[k].indentNextLine

\* C2: when the document's language has rules of its own and the prefix is
\* matched by one of them and by a general rule, formatCompletion returns the
\* decision of the language's rule.
C2_LanguageRuleDecides ==
  fpc = "formatted" =>
    LET l == MatchingRules(RulesOfLanguage)
    IN (l # {} /\ MatchingRules(lineBreakRules) # {}) =>
         formatted.text = DecisionText(RulesOfLanguage[Least(l)])

\* C2, the case: formatCompletion has returned for a prefix whose first
\* matching rule of the language and first matching general rule decide
\* differently
C2_BothListsMatch ==
  /\ fpc = "formatted"
  /\ LET l == MatchingRules(RulesOfLanguage)
         g == MatchingRules(lineBreakRules)
     IN /\ l # {}
        /\ g # {}
        /\ RulesOfLanguage[Least(l)].indentNextLine
             # lineBreakRules[Least(g)].indentNextLine

\* whether a rule of the language or a general rule matches the line prefix
RuleMatched ==
  MatchingRules(RulesOfLanguage) # {} \/ MatchingRules(lineBreakRules) # {}

\* the resolver's result for the request
Deduplicated == DuplicateResolution(LinePrefix, completionText).text

\* what a formatting decision can put before the text
Leads ==
  {<<>>, <<"\n">> \o CurrentIndent, <<"\n">> \o CurrentIndent \o IndentUnit}

\* the maximal run of word characters s ends with
TrailingWord(s) ==
  LET n == Least({m \in 0..Len(s) :
                    m = Len(s) \/ s[Len(s) - m] \notin WordChars})
  IN SubSeq(s, Len(s) - n + 1, Len(s))

\* C3 as stated: whichever rule matched, the text after the prepended
\* newline and indentation is the de-duplicated completion.
C3_AlwaysDeduplicated ==
  fpc = "formatted" =>
    \E lead \in Leads : formatted.text = lead \o Deduplicated

\* C3, amended: the resolver runs only when no rule of the language and no
\* general rule matches the prefix.  When a rule matches, the text after the
\* newline and indentation is the raw completion without its leading white
\* space; when none matches, it is the resolver's result, from which the
\* partial-definition adjustment removes the prefix's trailing word when the
\* result starts with it.
C3_DeduplicatedWhenNoRuleMatches ==
  fpc = "formatted" =>
    IF RuleMatched
    THEN \E lead \in Leads : formatted.text = lead \o TrimLeft(completionText)
    ELSE LET w == TrailingWord(Trim(LinePrefix))
             d == Deduplicated
             body == IF w # <<>> /\ StartsWith(d, w)
                     THEN TrimLeft(Slice(d, Len(w)))
                     ELSE d
         IN \E lead \in Leads : formatted.text = lead \o body

\* C3, the case: formatCompletion has returned by a rule for a completion
\* from which the resolver would have stripped something
C3_RuleMatchedAndDuplicate ==
  /\ fpc = "formatted"
  /\ RuleMatched
  /\ DuplicateResolution(LinePrefix, completionText).by # "none"

\* C4: the resolver returns what the signature strategy returns when it
\* strips, else what the partial-identifier strategy returns when it strips,
\* else what the keyword strategy returns when it strips, else the completion
\* as it came.
C4_StrategiesInOrder ==
  fpc = "resolved" =>
    LET trimmedPrefix == Trim(LinePrefix)
        trimmedCompletion == Trim(completionText)
        signature == signatureStrip(trimmedPrefix, trimmedCompletion)
        partialWord == partialWordStrip(trimmedPrefix, trimmedCompletion)
        keyword == keywordStrip(trimmedPrefix, trimmedCompletion)
    IN resolved[1] = IF signature.ok THEN signature.text
                     ELSE IF partialWord.ok THEN partialWord.text
                     ELSE IF keyword.ok THEN keyword.text
                     ELSE completionText

\* C4, the case: the resolver has returned for a prefix and a completion on
\* which the first two strategies both strip, with different results
C4_TwoStrategiesStrip ==
  /\ fpc = "resolved"
  /\ LET trimmedPrefix == Trim(LinePrefix)
         trimmedCompletion == Trim(completionText)
         signature == signatureStrip(trimmedPrefix, trimmedCompletion)
         partialWord == partialWordStrip(trimmedPrefix, trimmedCompletion)
     IN signature.ok /\ partialWord.ok /\ signature.text # partialWord.text

\* C5 as stated: one formatCompletion call applies at most one stripping step
\* to the completion.
C5_AtMostOneStrip == fpc = "formatted" => Len(strips) <= 1

\* C6 as stated: the resolver applied to its own result, with the same
\* prefix, returns that result.
C6_ResolveIdempotent == fpc = "resolvedAgain" => resolved[2] = resolved[1]

\* C7 as stated: a completion that does not begin with the trailing
\* identifier or keyword of the prefix is returned unchanged by the resolver.
C7_UnchangedWithoutOverlap ==
  fpc = "resolved" =>
    LET w == TrailingWord(Trim(LinePrefix))
    IN (w = <<>> \/ ~StartsWith(Trim(completionText), w)) =>
         resolved[1] = completionText

(***************************************************************************)
(* Properties of the context manager (checked under Spec).                 *)
(***************************************************************************)
\* C8 as stated: after getUserContext has recomputed the window on an active
\* document of T lines, the window is the document's last
\* min(T, maxWindowSize) lines, in order.
C8_WindowIsDocumentTail ==
  (userContext.returned /\ readEditor.open) =>
    LET lines == readEditor.document.lines
        n == Min(Len(lines), maxWindowSize)
    IN /\ Len(slidingWindow) = n
       /\ slidingWindow = SubSeq(lines, Len(lines) - n + 1, Len(lines))

\* the text of the lines from (0-based) up to, not including, line to of a
\* document: each line with the terminator that follows it in the document
TextOfLines(doc, from, to) ==
  Concat([i \in 1..Len(doc.lines) |->
            doc.lines[i] \o (IF i = Len(doc.lines) THEN <<>> ELSE doc.eol)],
         from + 1, to)

C10_LogIsTrackedTexts == acceptedSuggestions = tracked

\* C10, the case: two different texts have been tracked and getUserContext
\* has been called
C10_TwoTracked ==
  /\ Len(tracked) = 2
  /\ tracked[1] # tracked[2]
  /\ userContext.returned
(***************************************************************************)
(* Further properties of the context manager (checked under Spec).         *)
(***************************************************************************)
\* C11 as stated: a getUserContext call made while no editor is active
\* returns a bundle with an empty window and an empty snapshot, whatever was
\* recomputed before, and does not fail.
C11_EmptyBundleWithoutDocument ==
  /\ ~thrown
  /\ (userContext.returned /\ ~readEditor.open) =>
       /\ userContext.recentLines = <<>>
       /\ userContext.surroundingContext = <<>>

(***************************************************************************)
(* Properties of a completion request (checked under SpecProvide).         *)
(***************************************************************************)
\* the request went on after fetchCompletion resolved
Resumed == request \in {"discarded", "completed", "thrown"}

\* C12 as stated: a request that was cancelled while it awaited the model
\* returns no item and has changed neither the sliding window nor the log of
\* accepted suggestions.
C12_CancelledRequestHasNoEffect ==
  (Resumed /\ isCancellationRequested) =>
    /\ items = <<>>
    /\ requestWrote = {}

\* C13: when fetchCompletion resolves to the empty text, the request returns
\* no item and formatCompletion (rule engine and duplication resolver) is not
\* called.
C13_EmptyCandidateShortCircuits ==
  (Resumed /\ completionText = <<>>) =>
    /\ request = "discarded"
    /\ items = <<>>
    /\ fpc = "idle"

\* C13, the case: a request that was not cancelled has resumed with the empty
\* text
C13_EmptyCandidate ==
  /\ Resumed
  /\ completionText = <<>>
  /\ ~isCancellationRequested

(***************************************************************************)
(* Further properties of the formatter (checked under SpecFormat).         *)
(***************************************************************************)
\* the returned text starts on a new line
BreakAdded == formatted.text # <<>> /\ formatted.text[1] = "\n"

\* the rule formatCompletion returns by when a rule matches
DecidingRule ==
  LET l == MatchingRules(RulesOfLanguage)
      g == MatchingRules(lineBreakRules)
  IN IF l # {} THEN RulesOfLanguage[Least(l)] ELSE lineBreakRules[Least(g)]

\* C14: whichever way formatCompletion returns (by a rule of the language,
\* by a general rule, by the fallback with or without a line break), the
\* returned range is the empty range at the request's position.
C14_RangeIsCursor ==
  fpc \in {"formatted", "formattedV1"} =>
    /\ formatted.range.start = position
    /\ formatted.range.end = position

\* C14, the case: formatCompletion has returned by the fallback with a line
\* break, for a position that is not the start of its line
C14_FallbackBreak ==
  /\ fpc = "formatted"
  /\ ~RuleMatched
  /\ BreakAdded
  /\ position.character > 0

\* C15 as stated: when no rule of the language and no general rule matches
\* the prefix, the completion is inserted inline: the returned text does not
\* start with a newline and an indentation.
C15_InlineWhenNoRuleMatches ==
  /\ (fpc = "formatted" /\ ~RuleMatched) => ~BreakAdded
  /\ (fpc = "formattedV1" /\ MatchingRules(lineBreakRulesV1) = {}) =>
       formatted.text = completionText

\* C16 as stated: for an empty or blank line prefix of any length, the
\* formatter returns the completion as it came, with no newline and no
\* indentation before it, and the resolver returns the completion unchanged.
C16_BlankPrefixInline ==
  Trim(LinePrefix) = <<>> =>
    /\ fpc \in {"formatted", "formattedV1"} => formatted.text = completionText
    /\ fpc = "resolved" => resolved[1] = completionText


\* the first matching rule of completionFormatter.ts
DecidingRuleV1 == lineBreakRulesV1[Least(MatchingRules(lineBreakRulesV1))]

\* the indentation a breaking rule gives the new line
IndentationOf(rule) ==
  IF rule.indentNextLine THEN CurrentIndent \o IndentUnit ELSE CurrentIndent

\* a breaking rule put text on a new line behind its indentation
BrokenOnto(rule, text) ==
  rule.shouldBreak =>
    formatted.text = <<"\n">> \o IndentationOf(rule) \o text

\* C17 as stated: when the matched rule has shouldBreak, the returned text is
\* a newline, the indentation and the completion as it was received.
C17_BreakTextAsReceived ==
  /\ (fpc = "formatted" /\ RuleMatched) =>
       BrokenOnto(DecidingRule, completionText)
  /\ (fpc = "formattedV1" /\ MatchingRules(lineBreakRulesV1) # {}) =>
       BrokenOnto(DecidingRuleV1, completionText)

\* C17, amended: when the matched rule has shouldBreak, the returned text is
\* a newline, the indentation and the completion without its leading white
\* space; the indentation is the line's leading white space, extended by one
\* indent unit when the rule has indentNextLine, and one indent unit is
\* tabSize spaces when insertSpaces is set and one tab character when not.
C17_BreakTextTrimmed ==
  /\ (fpc = "formatted" /\ RuleMatched) =>
       BrokenOnto(DecidingRule, TrimLeft(completionText))
  /\ (fpc = "formattedV1" /\ MatchingRules(lineBreakRulesV1) # {}) =>
       BrokenOnto(DecidingRuleV1, TrimLeft(completionText))

\* C17, the case: formatCompletion has returned by a breaking rule with
\* indentNextLine, on an indented line of an editor that indents with tabs,
\* for a completion that starts with white space
C17_TabIndentedBreak ==
  /\ fpc = "formatted"
  /\ RuleMatched
  /\ DecidingRule.shouldBreak
  /\ DecidingRule.indentNextLine
  /\ ~insertSpaces
  /\ CurrentIndent # <<>>
  /\ TrimLeft(completionText) # completionText

\* getUserContext was last called with the editor that is active now, same
\* document text and same cursor
ReadAsNow == userContext.returned /\ readEditor = activeTextEditor

\* C18: getUserContext called again with the same active document text and
\* the same cursor as the call before it changes nothing: the window, the
\* log and every other field of the manager stay as they are, and the bundle
\* returned equals the bundle returned before.
C18_RecomputeIdempotent ==
  [][(ReadAsNow /\ ShowUserContext) => UNCHANGED vars]_vars

\* C18, the case: getUserContext has returned for the editor that is still
\* active, on a document longer than the window with suggestions in the log,
\* so that the second call recomputes a cut window
C18_CalledOnLongDocument ==
  /\ ReadAsNow
  /\ activeTextEditor.open
  /\ Len(activeTextEditor.document.lines) > maxWindowSize
  /\ Len(slidingWindow) = maxWindowSize
  /\ acceptedSuggestions # <<>>

\* C19: no call of a completion request throws: in every state of a request,
\* also one whose document was edited or shortened while the model's
\* completion was awaited, formatCompletion and getUserContext have returned
\* a value.
C19_NeverThrows == request # "thrown" /\ fpc # "thrown" /\ ~thrown

ImportKeyword == <<"i", "m", "p", "o", "r", "t">>

\* the text before the cursor is the start of an import statement: the
\* keyword at the start of the line and white space behind it
ImportPrefix ==
  /\ StartsWith(LinePrefix, ImportKeyword)
  /\ Len(LinePrefix) > Len(ImportKeyword)
  /\ TrimLeft(Slice(LinePrefix, Len(ImportKeyword)))
       # Slice(LinePrefix, Len(ImportKeyword))

NameCaptured(pattern, match) ==
  match.ok /\ pattern.ng > 0 /\ match.caps[pattern.ng] # <<>>

\* the prefix and the completion both match the pattern, and both matches
\* captured the same identifier
SameIdentifier(pattern, trimmedPrefix, trimmedCompletion) ==
  /\ NameCaptured(pattern, Exec(pattern, trimmedPrefix))
  /\ NameCaptured(pattern, Exec(pattern, trimmedCompletion))
  /\ SameDeclaration(pattern, trimmedPrefix, trimmedCompletion)

\* C23 as stated: the resolver strips by the construct-signature strategy
\* only when the trimmed prefix and the completion match the same declaration
\* pattern and the identifier captured from the completion is the identifier
\* captured from the prefix.
C23_StripsOnIdenticalIdentifier ==
  (fpc = "resolved"
     /\ DuplicateResolution(LinePrefix, completionText).by = "signature") =>
    SameIdentifier(declarationPatterns[FirstDeclaration(Trim(LinePrefix),
                                                        Trim(completionText))],
                   Trim(LinePrefix), Trim(completionText))

\* the declaration patterns of the request's language
OwnPatterns == ForLanguage(functionPatterns, document.languageId, "patterns")

\* the strip of the first pattern of a list on which the prefix and the
\* completion agree
StripBy(patterns, trimmedPrefix, trimmedCompletion) ==
  LET d == FirstOf({j \in 1..Len(patterns) :
                      SameDeclaration(patterns[j], trimmedPrefix,
                                      trimmedCompletion)})
  IN IF d = 0 THEN NotStripped
     ELSE Stripped(AfterMatch(trimmedCompletion,
                              Exec(patterns[d], trimmedPrefix)))

\* the first strategy directed by the language: the patterns of the
\* request's language when one of them matches the prefix, and else the
\* patterns of all languages
LanguageDirectedStrip(trimmedPrefix, trimmedCompletion) ==
  IF AnyPattern(OwnPatterns, trimmedPrefix)
  THEN StripBy(OwnPatterns, trimmedPrefix, trimmedCompletion)
  ELSE StripBy(declarationPatterns, trimmedPrefix, trimmedCompletion)

\* C24 as stated: the construct-signature strategy tests the declaration
\* patterns of the request's languageId first, and uses the patterns of
\* other languages only when no pattern of that language matches the prefix.
C24_OwnLanguageFirst ==
  fpc = "resolved" =>
    signatureStrip(Trim(LinePrefix), Trim(completionText))
      = LanguageDirectedStrip(Trim(LinePrefix), Trim(completionText))

\* the characters that continue an identifier or open or close a bracket
ContinuingChars == WordChars \cup {"<", ">", "[", "]", "(", ")", "{", "}"}

\* the case of the partial-identifier strategy: the trimmed prefix ends in
\* the word w, the first strategy does not strip, and the completion starts
\* with w and goes on with a word character or a bracket
PartialIdentifierRestated(w) ==
  /\ w # <<>>
  /\ ~signatureStrip(Trim(LinePrefix), Trim(completionText)).ok
  /\ StartsWith(completionText, w)
  /\ Len(completionText) > Len(w)
  /\ completionText[Len(w) + 1] \in ContinuingChars

\* C25 as stated: in that case the resolved completion is the completion
\* with exactly the leading w removed.
C25_LeadingWordRemoved ==
  (fpc = "resolved" /\ PartialIdentifierRestated(TrailingWord(Trim(LinePrefix)))) =>
    resolved[1] = Slice(completionText, Len(TrailingWord(Trim(LinePrefix))))

\* C25, amended: in that case the resolved completion is the completion
\* without the white space around it and without the leading w.
C25_LeadingWordRemovedFromTrimmed ==
  (fpc = "resolved" /\ PartialIdentifierRestated(TrailingWord(Trim(LinePrefix)))) =>
    resolved[1] = Slice(Trim(completionText),
                        Len(TrailingWord(Trim(LinePrefix))))

\* C25, the case: the resolver has returned by the partial-identifier
\* strategy for a completion that ends in white space
C25_PaddedCompletion ==
  /\ fpc = "resolved"
  /\ PartialIdentifierRestated(TrailingWord(Trim(LinePrefix)))
  /\ Trim(completionText) # completionText

\* s ends with the word w: w is not the end of a longer word
EndsWithWord(s, w) ==
  /\ Len(w) <= Len(s)
  /\ SubSeq(s, Len(s) - Len(w) + 1, Len(s)) = w
  /\ Len(s) > Len(w) => s[Len(s) - Len(w)] \notin WordChars

\* s starts with the word w: w is not the start of a longer word
StartsWithWord(s, w) ==
  /\ StartsWith(s, w)
  /\ Len(s) > Len(w) => s[Len(w) + 1] \notin WordChars

\* the case of the keyword strategy: the completion starts with the keyword,
\* the trimmed prefix ends with it, and the first two strategies do not strip
KeywordRestated(keyword) ==
  /\ StartsWithWord(completionText, keyword)
  /\ EndsWithWord(Trim(LinePrefix), keyword)
  /\ ~signatureStrip(Trim(LinePrefix), Trim(completionText)).ok
  /\ ~partialWordStrip(Trim(LinePrefix), Trim(completionText)).ok

\* C26: when the trimmed prefix ends with a reserved keyword at a word
\* boundary, the first two strategies do not strip, and the completion starts
\* with the same keyword at a word boundary, the resolved completion is the
\* completion without that leading keyword, trimmed.
C26_LeadingKeywordRemoved ==
  fpc = "resolved" =>
    \A k \in 1..Len(keywords) :
      KeywordRestated(keywords[k]) =>
        resolved[1] = Trim(Slice(completionText, Len(keywords[k])))

\* C26, the case: the resolver has returned for a prefix that ends with a
\* keyword and a completion that restates it, with white space behind it
C26_KeywordAndSpace ==
  /\ fpc = "resolved"
  /\ \E k \in 1..Len(keywords) :
       /\ KeywordRestated(keywords[k])
       /\ Len(completionText) > Len(keywords[k])
       /\ completionText[Len(keywords[k]) + 1] = " "

(***************************************************************************)
(* Properties of the context manager and of the bundles it returns         *)
(* (checked under Spec).                                                   *)
(***************************************************************************)
\* the last n entries of a sequence
LastEntries(s, n) == SubSeq(s, Len(s) - Min(n, Len(s)) + 1, Len(s))

\* C21 as stated: the state behind a bundle is the state of the bundle's own
\* document: the window a bundle reports for a document is made of that
\* document's text, and the log it reports holds no suggestion that was
\* accepted while another document was the active one.
C21_BundleOfOwnDocument ==
  (userContext.returned /\ readEditor.open) =>
    /\ userContext.recentLines
         = LastEntries(SplitText(readEditor.document), maxWindowSize)
    /\ userContext.acceptedSuggestions # <<>> =>
         acceptedIn \subseteq {readEditor.document.uri}

\* C30 as stated: a bundle that getUserContext has returned is not changed
\* by a later trackAcceptedSuggestion call: its recentLines and its
\* acceptedSuggestions stay as they were returned.
C30_ReturnedBundleStable ==
  [][(userContext.returned /\ AcceptCompletionItem) =>
       /\ userContext'.recentLines = userContext.recentLines
       /\ userContext'.acceptedSuggestions = userContext.acceptedSuggestions]_vars

(***************************************************************************)
(* Properties of a completion request (checked under SpecProvide).         *)
(***************************************************************************)
\* fetchCompletion ended by one of its failures
FetchFailed ==
  fetched.by \in {"missingKey", "notSelected", "unsupported", "caught"}

\* C22: whichever way the model layer fails (no API key, no provider or
\* model, unsupported provider, a rejected invocation or a response that
\* does not parse), fetchCompletion resolves to the empty string, nothing is
\* thrown, and the request returns no item.
C22_FailureIsEmptyCandidate ==
  FetchFailed =>
    /\ completionText = <<>>
    /\ request = "discarded"
    /\ items = <<>>
    /\ ~thrown

\* C22, the case: the invocation or the parser failed on a model handle that
\* was made, in a request that was not cancelled
C22_InvocationFailed ==
  /\ fetched.by = "caught"
  /\ fetched.model = "ChatOpenAI"
  /\ ~isCancellationRequested

\* the class of the model handle of a supported provider
HandleOf(provider) ==
  IF provider = "openai" THEN "ChatOpenAI" ELSE "ChatAnthropic"

\* C27 as stated: for each supported provider, with an API key and a model
\* name set, the model that fetchCompletion invokes is a handle made for
\* that provider.
C27_HandleOfProvider ==
  fetched.by \in {"caught", "returned"} =>
    fetched.model = HandleOf(fetched.provider)

\* C28 as stated: the line prefix the formatter classifies when the request
\* resumes is the line prefix the request put in its prompt.
C28_PrefixAsPrompted == request = "completed" => LinePrefix = userInput

\* C29 as stated: the bundle a request builds its prompt from is computed
\* from the request's document and position: its window is the document's
\* last lines and its snapshot the neighbourhood of the request's line.
C29_BundleOfRequest ==
  [][(ProvideInlineCompletionItems /\ request' = "fetching") =>
       /\ userContext'.recentLines = LastEntries(document.lines, maxWindowSize)
       /\ userContext'.surroundingContext
            = TextOfLines(document, Max(0, position'.line - 25),
                          Min(Len(document.lines), position'.line + 25))]_vars
====
